---- MODULE Spec2Model ----
\* FigureIt AI core: the user session (context, interests, evidence, decision)
\* and the MarketPulse multiplier service, as state machines.
\*
\* Fixed-point conventions:
\*   features            units of 1/10000   (1.0 = 10000)
\*   weights             units of 1/10      (0.4 = 4)
\*   unrounded scores    units of 1/100000
\*   rounded scores      units of 1/1000    (0.25 = 250)
\*   interest bias       units of 1/10      (0.7 = 7)
\*   market multipliers  units of 1/1000 before rounding, 1/100 after
EXTENDS Integers, Sequences, FiniteSets, TLC

VARIABLES
    basic_profile,      \* UserState.basic_profile
    interest_profile,   \* UserState.interest_profile (None until attached)
    context_profile,    \* UserState.context_profile  (None until attached)
    evidence_profile,   \* UserState.evidence_profile (None until attached)
    decision_state,     \* UserState.decision_state   (None until decided)
    scores,             \* make_decision's local scores in its last completed run
    raised,             \* exception raised by the last session operation, or "none"
    cache,              \* MarketPulse._cache: normalized skill -> multiplier
    calls               \* log of MarketPulse calls, oldest first

vars == <<basic_profile, interest_profile, context_profile, evidence_profile,
          decision_state, scores, raised, cache, calls>>

sessionVars == <<basic_profile, interest_profile, context_profile,
                 evidence_profile, decision_state, scores, raised>>

marketVars == <<cache, calls>>

-----------------------------------------------------------------------------
\* Generic helpers

\* Python's None
None == [kind |-> "None"]

\* Python's {} (a dict with no keys)
EmptyDict == [k \in {} |-> 0]

\* dict.get(k, default)
Get(d, k, default) == IF k \in DOMAIN d THEN d[k] ELSE default

\* x in list
InSeq(seq, x) == \E i \in 1..Len(seq) : seq[i] = x

Min(a, b) == IF a <= b THEN a ELSE b

Max(a, b) == IF a >= b THEN a ELSE b

-----------------------------------------------------------------------------
\* Bounds of the model (inputs are drawn from sets built on them)

\* stars are drawn from {5, 10, ..., 5 * MaxStarLevel}
MaxStarLevel == 2

\* number of MarketPulse calls in one behaviour
MaxCalls == 2

StarVals == {5 * k : k \in 1..MaxStarLevel}

\* interest weights the extraction may return, in tenths
BiasVals == {0, 8}

HourVals == {6, 9, 12, 20}

\* github_stats dicts a caller may attach ({} when the record was invalid)
GithubInputs ==
    {EmptyDict} \cup {[repos |-> s \div 2, stars |-> s] : s \in StarVals}

\* leetcode_stats dicts a caller may attach ({} when the record was invalid)
LeetcodeInputs ==
    {EmptyDict,
     [total_solved |-> 10, easy |-> 10, medium |-> 0],
     [total_solved |-> 100, easy |-> 20, medium |-> 60]}

\* the profile run_full_analysis builds from an empty basic_data
DefaultBasicProfile ==
    [college_tier |-> 3, year_of_study |-> 1, time_availability |-> 10]

-----------------------------------------------------------------------------
\* Context Profiler

\* a plausible slip: the safety net evaluated before the two HIGH checks
ComputeContext_safety_net_first(basic) ==
    LET urgency ==
            IF basic.year_of_study >= 4 THEN "HIGH"
            ELSE IF basic.year_of_study = 3 THEN "MEDIUM"
            ELSE "LOW"
        s0 == "MEDIUM"
        s1 == IF basic.college_tier = 1 /\ basic.year_of_study <= 2
              THEN "LOW" ELSE s0
        s2 == IF basic.college_tier = 3 /\ basic.year_of_study >= 3
              THEN "HIGH" ELSE s1
        strictness == IF basic.time_availability < 8 THEN "HIGH" ELSE s2
        max_focus ==
            IF urgency = "HIGH" THEN 1
            ELSE IF strictness = "HIGH" THEN 1
            ELSE 2
        proof ==
            IF basic.college_tier = 3 \/ urgency = "HIGH"
            THEN "STRONG" ELSE "BASIC"
    IN  [strictness_level |-> strictness,
         urgency_level |-> urgency,
         max_focus_skills |-> max_focus,
         proof_expectation |-> proof]

\* a plausible slip: the capacity rule looks at urgency only
ComputeContext_capacity_by_urgency(basic) ==
    LET urgency ==
            IF basic.year_of_study >= 4 THEN "HIGH"
            ELSE IF basic.year_of_study = 3 THEN "MEDIUM"
            ELSE "LOW"
        s0 == "MEDIUM"
        s1 == IF basic.college_tier = 3 /\ basic.year_of_study >= 3
              THEN "HIGH" ELSE s0
        s2 == IF basic.time_availability < 8 THEN "HIGH" ELSE s1
        strictness ==
            IF basic.college_tier = 1 /\ basic.year_of_study <= 2
            THEN "LOW" ELSE s2
        max_focus == IF urgency = "HIGH" THEN 1 ELSE 2
        proof ==
            IF basic.college_tier = 3 \/ urgency = "HIGH"
            THEN "STRONG" ELSE "BASIC"
    IN  [strictness_level |-> strictness,
         urgency_level |-> urgency,
         max_focus_skills |-> max_focus,
         proof_expectation |-> proof]

\* build_context: the ContextProfile computed from a BasicProfile
ComputeContext(basic) ==
    LET urgency ==
            IF basic.year_of_study >= 4 THEN "HIGH"
            ELSE IF basic.year_of_study = 3 THEN "MEDIUM"
            ELSE "LOW"
        s0 == "MEDIUM"
        s1 == IF basic.college_tier = 3 /\ basic.year_of_study >= 3
              THEN "HIGH" ELSE s0
        s2 == IF basic.time_availability < 8 THEN "HIGH" ELSE s1
        strictness ==
            IF basic.college_tier = 1 /\ basic.year_of_study <= 2
            THEN "LOW" ELSE s2
        max_focus ==
            IF urgency = "HIGH" THEN 1
            ELSE IF strictness = "HIGH" THEN 1
            ELSE 2
        proof ==
            IF basic.college_tier = 3 \/ urgency = "HIGH"
            THEN "STRONG" ELSE "BASIC"
    IN  [strictness_level |-> strictness,
         urgency_level |-> urgency,
         max_focus_skills |-> max_focus,
         proof_expectation |-> proof]

\* a plausible slip: the idempotency guard left out
build_context_recomputed(ctx, basic) == ComputeContext(basic)

\* the context_profile of the session after build_context: the idempotency
\* guard, then the rules
build_context(ctx, basic) ==
    IF ctx # None THEN ctx ELSE ComputeContext(basic)

\* build_context(user_state)
BuildContext ==
    /\ context_profile' = build_context(context_profile, basic_profile)
    /\ raised' = "none"
    /\ UNCHANGED <<basic_profile, interest_profile, evidence_profile,
                   decision_state, scores, marketVars>>

-----------------------------------------------------------------------------
\* Interest agent

\* outcomes of _extract_interest_signals: the three extracted weights, or the
\* fixed fallback when the remote call or the parse fails
InterestSignals ==
    {[development |-> d, problem_solving |-> p, data |-> a] :
        d \in BiasVals, p \in BiasVals, a \in BiasVals}
    \cup {[development |-> 3, problem_solving |-> 3, data |-> 3]}

Max3(a, b, c) == Max(a, Max(b, c))

\* analyze_interests: the InterestProfile built from the extracted bias
ComputeInterest(bias) ==
    LET max_signal == Max3(bias.development, bias.problem_solving, bias.data)
        confidence ==
            IF max_signal >= 7 THEN "HIGH"
            ELSE IF max_signal <= 4 THEN "LOW"
            ELSE "MEDIUM"
    IN  [interest_bias |-> bias,
         confidence_level |-> confidence,
         exploration_allowed |-> (confidence # "HIGH")]

\* a plausible slip: the extraction called before the idempotency guard
analyze_interests_extract_first(profile, bias) ==
    [profile |-> IF profile # None THEN profile ELSE ComputeInterest(bias),
     extracted |-> TRUE]

\* analyze_interests on a session whose interest_profile is profile: the
\* interest_profile after the call, and whether _extract_interest_signals
\* (the remote call) was made; bias is what the extraction returns
analyze_interests(profile, bias) ==
    IF profile # None
    THEN [profile |-> profile, extracted |-> FALSE]
    ELSE [profile |-> ComputeInterest(bias), extracted |-> TRUE]

\* analyze_interests(user_state, answers); bias is what the extraction returned
AnalyzeInterests(bias) ==
    /\ interest_profile' = analyze_interests(interest_profile, bias).profile
    /\ raised' = "none"
    /\ UNCHANGED <<basic_profile, context_profile, evidence_profile,
                   decision_state, scores, marketVars>>

-----------------------------------------------------------------------------
\* Evidence attached by the caller (as the decision demo does)

AttachEvidence(gh, lc) ==
    /\ evidence_profile' = [github_stats |-> gh, leetcode_stats |-> lc]
    /\ raised' = "none"
    /\ UNCHANGED <<basic_profile, interest_profile, context_profile,
                   decision_state, scores, marketVars>>

-----------------------------------------------------------------------------
\* Evidence Profiler
\*
\* A raw record is None or a dict; an account_created string is a record that
\* says whether it is empty, unparsable for strptime, or a date, and how
\* many days ago that date lies.

\* the account_created string ""
NoDate == [kind |-> "empty", days_ago |-> 0]

\* an account_created string strptime rejects
BadDate == [kind |-> "unparsable", days_ago |-> 0]

\* an account_created string strptime parses, of a date days_ago days back
CreatedAt(days_ago) == [kind |-> "date", days_ago |-> days_ago]

\* THRESHOLDS["MIN_REPOS"]
MIN_REPOS == 3

\* THRESHOLDS["IMPACT_STARS"]
IMPACT_STARS == 5

\* THRESHOLDS["PORTFOLIO_POLISH_STARS"]
PORTFOLIO_POLISH_STARS == 10

\* THRESHOLDS["STALE_ACCOUNT_YEARS"]
STALE_ACCOUNT_YEARS == 2

\* THRESHOLDS["DSA_BEGINNER_LIMIT"]
DSA_BEGINNER_LIMIT == 15

\* THRESHOLDS["INTERVIEW_READY_MEDIUMS"]
INTERVIEW_READY_MEDIUMS == 40

\* THRESHOLDS["DSA_SATURATION_TOTAL"]
DSA_SATURATION_TOTAL == 200

\* THRESHOLDS["LOW_DIFFICULTY_RATIO"] 0.7, in tenths
LOW_DIFFICULTY_RATIO == 7

\* TAG_ENCODINGS in declaration order: <<tag, feature name>>
TAG_ENCODINGS ==
    <<<<"no_project_evidence", "has_projects">>,
      <<"early_stage_projects", "early_projects">>,
      <<"projects_show_real_world_signal", "project_impact">>,
      <<"portfolio_needs_polish", "portfolio_polish_needed">>,
      <<"stagnant_project_growth", "project_stagnation">>,
      <<"no_dsa_evidence", "has_dsa">>,
      <<"weak_dsa_foundation", "weak_dsa">>,
      <<"dsa_sufficient_for_interviews", "dsa_interview_ready">>,
      <<"dsa_saturation_reached", "dsa_saturated">>,
      <<"low_difficulty_bias", "easy_bias">>,
      <<"shift_focus_to_projects", "needs_project_focus">>,
      <<"strengthen_core_dsa", "needs_dsa_focus">>,
      <<"execution_ready_profile", "execution_ready">>>>

\* a raw record is truthy: neither None nor {}
Truthy(record) == record # None /\ record # EmptyDict

\* record and record.get("valid"): the marker is True or False; a record
\* without the marker yields None, which is falsy like False
Valid(record) == Truthy(record) /\ Get(record, "valid", FALSE)

\* _calculate_account_age, in days (the source divides by 365.0)
calculate_account_age(created_at) ==
    IF created_at.kind = "empty" THEN 0
    ELSE IF created_at.kind = "unparsable" THEN 0
    ELSE created_at.days_ago

\* flags.append(tag) when cond
AppendIf(flags, cond, tag) == IF cond THEN Append(flags, tag) ELSE flags

\* a plausible slip: a sparse encoding that holds a key only for the
\* features whose tag is present
encode_flags_present_only(flags) ==
    [name \in {TAG_ENCODINGS[i][2] : i \in
                  {j \in 1..Len(TAG_ENCODINGS) :
                      InSeq(flags, TAG_ENCODINGS[j][1])}} |-> 1]

\* _encode_flags: feature name -> int(tag in flags)
encode_flags(flags) ==
    [name \in {TAG_ENCODINGS[i][2] : i \in 1..Len(TAG_ENCODINGS)} |->
        LET tag == TAG_ENCODINGS[
                       CHOOSE i \in 1..Len(TAG_ENCODINGS) :
                           TAG_ENCODINGS[i][2] = name][1]
        IN  IF InSeq(flags, tag) THEN 1 ELSE 0]

\* the fields of the EvidenceProfile dataclass
EvidenceProfileFields ==
    {"github_stats", "leetcode_stats", "flags", "feature_vector"}

\* EvidenceProfile(**kwargs): the generated __init__ rejects a keyword that is
\* no field; missing fields take their defaults
EvidenceProfile(kwargs) ==
    IF DOMAIN kwargs \subseteq EvidenceProfileFields
    THEN [raised |-> "none",
          profile |->
              [github_stats |-> Get(kwargs, "github_stats", EmptyDict),
               leetcode_stats |-> Get(kwargs, "leetcode_stats", EmptyDict),
               flags |-> Get(kwargs, "flags", <<>>),
               feature_vector |-> Get(kwargs, "feature_vector", <<>>)]]
    ELSE [raised |-> "TypeError: EvidenceProfile.__init__() got an unexpected keyword argument",
          profile |-> None]

\* the GitHub part of build_evidence: the flags it appends
github_flags(github_stats, gh_valid) ==
    IF ~gh_valid THEN <<"no_project_evidence">>
    ELSE LET repo_count == Get(github_stats, "repos", 0)
             stars == Get(github_stats, "stars", 0)
             account_age ==
                 calculate_account_age(
                     Get(github_stats, "account_created", NoDate))
             f1 == AppendIf(<<>>, repo_count < MIN_REPOS,
                            "early_stage_projects")
             f2 == AppendIf(f1, stars >= IMPACT_STARS,
                            "projects_show_real_world_signal")
             f3 == AppendIf(f2, stars < PORTFOLIO_POLISH_STARS
                                    /\ repo_count >= 5,
                            "portfolio_needs_polish")
         IN  AppendIf(f3, account_age > STALE_ACCOUNT_YEARS * 365
                              /\ repo_count < 5,
                      "stagnant_project_growth")

\* the LeetCode part of build_evidence: the flags it appends
leetcode_flags(leetcode_stats, lc_valid) ==
    IF ~lc_valid THEN <<"no_dsa_evidence">>
    ELSE LET total == Get(leetcode_stats, "total_solved", 0)
             easy == Get(leetcode_stats, "easy", 0)
             medium == Get(leetcode_stats, "medium", 0)
             f1 == AppendIf(<<>>, total < DSA_BEGINNER_LIMIT,
                            "weak_dsa_foundation")
             f2 == AppendIf(f1, medium >= INTERVIEW_READY_MEDIUMS,
                            "dsa_sufficient_for_interviews")
             f3 == AppendIf(f2, total >= DSA_SATURATION_TOTAL,
                            "dsa_saturation_reached")
         IN  AppendIf(f3, total > 50
                              /\ easy * 10 > LOW_DIFFICULTY_RATIO * total,
                      "low_difficulty_bias")

\* a plausible slip: strengthen_core_dsa raised by either prerequisite alone
cross_flags_either_prerequisite(flags) ==
    LET f1 == AppendIf(flags,
                       InSeq(flags, "dsa_saturation_reached")
                           /\ InSeq(flags, "portfolio_needs_polish"),
                       "shift_focus_to_projects")
        f2 == AppendIf(f1,
                       InSeq(f1, "projects_show_real_world_signal")
                           \/ InSeq(f1, "weak_dsa_foundation"),
                       "strengthen_core_dsa")
    IN  AppendIf(f2,
                 InSeq(f2, "projects_show_real_world_signal")
                     /\ InSeq(f2, "dsa_sufficient_for_interviews"),
                 "execution_ready_profile")

\* the cross-signal part of build_evidence
cross_flags(flags) ==
    LET f1 == AppendIf(flags,
                       InSeq(flags, "dsa_saturation_reached")
                           /\ InSeq(flags, "portfolio_needs_polish"),
                       "shift_focus_to_projects")
        f2 == AppendIf(f1,
                       InSeq(f1, "projects_show_real_world_signal")
                           /\ InSeq(f1, "weak_dsa_foundation"),
                       "strengthen_core_dsa")
    IN  AppendIf(f2,
                 InSeq(f2, "projects_show_real_world_signal")
                     /\ InSeq(f2, "dsa_sufficient_for_interviews"),
                 "execution_ready_profile")

\* build_evidence(user_state, github_stats, leetcode_stats): its locals when
\* it reaches the constructor call, and what the constructor call does
build_evidence(github_stats, leetcode_stats) ==
    LET gh_valid == Valid(github_stats)
        lc_valid == Valid(leetcode_stats)
        flags == cross_flags(github_flags(github_stats, gh_valid)
                                 \o leetcode_flags(leetcode_stats, lc_valid))
        encoded_features == encode_flags(flags)
        made == EvidenceProfile(
                    [github_stats |->
                         IF gh_valid THEN github_stats ELSE EmptyDict,
                     leetcode_stats |->
                         IF lc_valid THEN leetcode_stats ELSE EmptyDict,
                     flags |-> flags,
                     encoded_features |-> encoded_features])
    IN  [gh_valid |-> gh_valid,
         lc_valid |-> lc_valid,
         flags |-> flags,
         encoded_features |-> encoded_features,
         raised |-> made.raised,
         profile |-> made.profile]

\* a call of build_evidence on the session, logged
BuildEvidence(github_stats, leetcode_stats) ==
    /\ Len(calls) < MaxCalls
    /\ LET r == build_evidence(github_stats, leetcode_stats)
       IN  /\ evidence_profile' =
                  IF r.raised = "none" THEN r.profile ELSE evidence_profile
           /\ raised' = r.raised
           /\ calls' = Append(calls,
                  [op |-> "build_evidence",
                   github_stats |-> github_stats,
                   leetcode_stats |-> leetcode_stats,
                   gh_valid |-> r.gh_valid,
                   lc_valid |-> r.lc_valid,
                   flags |-> r.flags,
                   encoded_features |-> r.encoded_features,
                   raised |-> r.raised,
                   attached |-> evidence_profile'])
    /\ UNCHANGED <<basic_profile, interest_profile, context_profile,
                   decision_state, scores, cache>>

\* raw GitHub records: absent, empty, marked invalid, unmarked, and valid ones
GithubRecords ==
    {None, EmptyDict, [valid |-> FALSE], [repos |-> 4, stars |-> 2],
     [valid |-> TRUE, repos |-> 2, stars |-> 0,
      account_created |-> CreatedAt(1100)],
     [valid |-> TRUE, repos |-> 6, stars |-> 5,
      account_created |-> BadDate],
     [valid |-> TRUE, repos |-> 12, stars |-> 10,
      account_created |-> NoDate]}

\* raw LeetCode records: absent, marked invalid, and valid ones
LeetcodeRecords ==
    {None, [valid |-> FALSE],
     [valid |-> TRUE, total_solved |-> 5],
     [valid |-> TRUE, total_solved |-> 100, easy |-> 80, medium |-> 10,
      hard |-> 10],
     [valid |-> TRUE, total_solved |-> 250, easy |-> 50, medium |-> 60,
      hard |-> 20]}

EvidenceInit ==
    /\ basic_profile = DefaultBasicProfile
    /\ interest_profile = None
    /\ context_profile = None
    /\ evidence_profile = None
    /\ decision_state = None
    /\ scores = None
    /\ raised = "none"
    /\ cache = EmptyDict
    /\ calls = <<>>

EvidenceNext ==
    \E gh \in GithubRecords, lc \in LeetcodeRecords : BuildEvidence(gh, lc)

EvidenceSpec == EvidenceInit /\ [][EvidenceNext]_vars

\* a direct call of _encode_flags(flags), logged
EncodeFlags(flags) ==
    /\ Len(calls) < MaxCalls
    /\ calls' = Append(calls,
           [op |-> "encode_flags",
            flags |-> flags,
            encoded_features |-> encode_flags(flags),
            raised |-> "none"])
    /\ UNCHANGED <<cache, sessionVars>>

\* flag lists _encode_flags is applied to: the empty list, lists
\* build_evidence builds, and lists that hold tags TAG_ENCODINGS does not
\* register or a tag twice
FlagLists ==
    {<<>>,
     <<"unregistered_tag">>,
     <<"no_project_evidence", "unregistered_tag", "no_dsa_evidence">>,
     <<"has_projects">>,
     <<"weak_dsa_foundation", "weak_dsa_foundation">>}
    \cup {build_evidence(gh, lc).flags :
             gh \in GithubRecords, lc \in LeetcodeRecords}

EncodingNext == \E flags \in FlagLists : EncodeFlags(flags)

EncodingSpec == EvidenceInit /\ [][EncodingNext]_vars

-----------------------------------------------------------------------------
\* Decision Engine

CAREER_PATHS ==
    <<"Frontend Engineering", "Backend Engineering",
      "Data Science / ML", "Competitive Programming">>

PathSet == {CAREER_PATHS[i] : i \in 1..Len(CAREER_PATHS)}

\* difficulty multipliers, in tenths
PATH_DIFFICULTY ==
    [p \in PathSet |->
        CASE p = "Frontend Engineering" -> 2
          [] p = "Backend Engineering" -> 3
          [] p = "Data Science / ML" -> 6
          [] p = "Competitive Programming" -> 4]

\* the drop floor 0.25, in thousandths
DropFloor == 250

\* extract_features: evidence and interests as features in 1/10000
extract_features(ev, interest) ==
    LET gh == ev.github_stats
        lc == ev.leetcode_stats
        bias == interest.interest_bias
    IN  [project_strength |-> Min(Get(gh, "stars", 0) * 1000, 10000),
         project_volume |-> Min(Get(gh, "repos", 0) * 1000, 10000),
         dsa_depth |-> Min(Get(lc, "medium", 0) * 250, 10000),
         dsa_volume |-> Min((Get(lc, "total_solved", 0) * 10000) \div 300, 10000),
         easy_bias |->
             Min((Get(lc, "easy", 0) * 10000)
                     \div Max(Get(lc, "total_solved", 1), 1),
                 10000),
         interest_dev |-> Get(bias, "development", 0) * 1000,
         interest_ps |-> Get(bias, "problem_solving", 0) * 1000,
         interest_data |-> Get(bias, "data", 0) * 1000]

\* round(x, 3) for x >= 0 in 1/100000: the nearest thousandth, ties to even
Round3(x) ==
    LET q == x \div 100
        r == x % 100
    IN  IF r < 50 THEN q
        ELSE IF r > 50 THEN q + 1
        ELSE IF q % 2 = 0 THEN q ELSE q + 1

\* score_path before the final round: max(base - penalty, 0), in 1/100000
penalised_score(path, f, hours) ==
    LET base ==
            CASE path = "Frontend Engineering" ->
                     4 * f.project_strength + 2 * f.project_volume
                         + 4 * f.interest_dev
              [] path = "Backend Engineering" ->
                     3 * f.project_strength + 2 * f.dsa_depth
                         + 3 * f.interest_dev + 2 * f.interest_ps
              [] path = "Data Science / ML" ->
                     4 * f.dsa_depth + 4 * f.interest_data - 2 * f.easy_bias
              [] path = "Competitive Programming" ->
                     5 * f.dsa_depth + 3 * f.interest_ps - 2 * f.easy_bias
              [] OTHER -> 0
        difficulty == PATH_DIFFICULTY[path]
        penalty ==
            IF hours < 10 THEN difficulty * 6 * 1000
            ELSE IF hours < 15 THEN difficulty * 3 * 1000
            ELSE 0
    IN  Max(base - penalty, 0)

\* score_path: the viability score of a path, in thousandths
score_path(path, f, hours) == Round3(penalised_score(path, f, hours))

\* one insertion of the stable descending sort: item goes after every entry
\* whose score is at least its own
RECURSIVE InsertRanked(_, _)
InsertRanked(sorted, item) ==
    IF sorted = <<>> THEN <<item>>
    ELSE IF Head(sorted)[2] >= item[2]
         THEN <<Head(sorted)>> \o InsertRanked(Tail(sorted), item)
         ELSE <<item>> \o sorted

\* sorted(scores.items(), key=score, reverse=True): stable, so equal scores
\* keep the order of CAREER_PATHS
RECURSIVE SortRanked(_, _)
SortRanked(items, n) ==
    IF n = 0 THEN <<>>
    ELSE InsertRanked(SortRanked(items, n - 1), items[n])

\* a plausible slip: a sort that lets the last-declared path win a tie
Ranked_last_declared_wins(sc) ==
    SortRanked([i \in 1..Len(CAREER_PATHS) |->
                    <<CAREER_PATHS[Len(CAREER_PATHS) + 1 - i],
                      sc[CAREER_PATHS[Len(CAREER_PATHS) + 1 - i]]>>],
               Len(CAREER_PATHS))

Ranked(sc) ==
    SortRanked([i \in 1..Len(CAREER_PATHS) |->
                    <<CAREER_PATHS[i], sc[CAREER_PATHS[i]]>>],
               Len(CAREER_PATHS))

\* a plausible slip: the capacity test off by one
PartitionStep_overfill(acc, path, score, max_focus) ==
    IF score < DropFloor
    THEN [acc EXCEPT !.drop = Append(@, path),
                     !.reasons = (path :> <<"Low viability score", score>>) @@ @]
    ELSE IF Len(acc.focus) <= max_focus
    THEN [acc EXCEPT !.focus = Append(@, path),
                     !.reasons = (path :> <<"Best alignment score", score>>) @@ @]
    ELSE [acc EXCEPT !.park = Append(@, path),
                     !.reasons =
                         (path :> <<"Good option but focus limit reached", score>>) @@ @]

\* a plausible slip: free capacity tested before the drop floor
PartitionStep_capacity_first(acc, path, score, max_focus) ==
    IF Len(acc.focus) < max_focus
    THEN [acc EXCEPT !.focus = Append(@, path),
                     !.reasons = (path :> <<"Best alignment score", score>>) @@ @]
    ELSE IF score < DropFloor
    THEN [acc EXCEPT !.drop = Append(@, path),
                     !.reasons = (path :> <<"Low viability score", score>>) @@ @]
    ELSE [acc EXCEPT !.park = Append(@, path),
                     !.reasons =
                         (path :> <<"Good option but focus limit reached", score>>) @@ @]

\* the branch of the partition loop for one ranked entry
PartitionStep(acc, path, score, max_focus) ==
    IF score < DropFloor
    THEN [acc EXCEPT !.drop = Append(@, path),
                     !.reasons = (path :> <<"Low viability score", score>>) @@ @]
    ELSE IF Len(acc.focus) < max_focus
    THEN [acc EXCEPT !.focus = Append(@, path),
                     !.reasons = (path :> <<"Best alignment score", score>>) @@ @]
    ELSE [acc EXCEPT !.park = Append(@, path),
                     !.reasons =
                         (path :> <<"Good option but focus limit reached", score>>) @@ @]

\* the partition loop over ranked[1..n]
RECURSIVE PartitionLoop(_, _, _)
PartitionLoop(ranked, n, max_focus) ==
    IF n = 0
    THEN [focus |-> <<>>, park |-> <<>>, drop |-> <<>>, reasons |-> EmptyDict]
    ELSE PartitionStep(PartitionLoop(ranked, n - 1, max_focus),
                       ranked[n][1], ranked[n][2], max_focus)

\* a plausible slip: the fallback left out
Fallback_missing(acc, ranked) == acc

\* the fallback after the loop: an empty focus gets the top-ranked path
Fallback(acc, ranked) ==
    IF acc.focus = <<>>
    THEN [acc EXCEPT !.focus = Append(@, ranked[1][1]),
                     !.reasons =
                         (ranked[1][1] :>
                             <<"Fallback choice due to weak overall signals">>) @@ @]
    ELSE acc

\* the scores make_decision computes for a session
ComputeScores(basic, ev, interest) ==
    LET f == extract_features(ev, interest)
    IN  [p \in PathSet |-> score_path(p, f, basic.time_availability)]

\* the DecisionState make_decision builds
Decide(sc, max_focus) ==
    LET ranked == Ranked(sc)
    IN  Fallback(PartitionLoop(ranked, Len(ranked), max_focus), ranked)

\* a plausible slip: a missing ContextProfile read as a capacity of 1
make_decision_default_capacity(basic, context, ev, interest) ==
    IF ev = None \/ interest = None
    THEN [raised |-> "AttributeError", scores |-> None, decision |-> None]
    ELSE LET sc == ComputeScores(basic, ev, interest)
         IN  [raised |-> "none",
              scores |-> sc,
              decision |->
                  Decide(sc, IF context = None THEN 1
                             ELSE context.max_focus_skills)]

\* make_decision on a session with these profiles: the exception it raises
\* or "none", and the scores and the DecisionState it computed.
\* extract_features reads evidence_profile.github_stats and
\* interest_profile.interest_bias, then max_focus is read from
\* context_profile: each raises AttributeError on None, before anything is
\* assigned
make_decision(basic, context, ev, interest) ==
    IF ev = None \/ interest = None \/ context = None
    THEN [raised |-> "AttributeError", scores |-> None, decision |-> None]
    ELSE LET sc == ComputeScores(basic, ev, interest)
         IN  [raised |-> "none",
              scores |-> sc,
              decision |-> Decide(sc, context.max_focus_skills)]

\* make_decision(user): AttributeError when a profile it reads is still None
MakeDecision ==
    /\ UNCHANGED <<basic_profile, interest_profile, context_profile,
                   evidence_profile, marketVars>>
    /\ \E r \in {make_decision(basic_profile, context_profile,
                                evidence_profile, interest_profile)} :
           /\ raised' = r.raised
           /\ IF r.raised # "none"
              THEN UNCHANGED <<decision_state, scores>>
              ELSE /\ scores' = r.scores
                   /\ decision_state' = r.decision

\* make_decision(user, market), the call of the decision advisor demo: the
\* function takes one positional argument, so the call raises TypeError before
\* its body runs
MakeDecisionWithMarket ==
    /\ raised' = "TypeError: make_decision() takes 1 positional argument but 2 were given"
    /\ UNCHANGED <<basic_profile, interest_profile, context_profile,
                   evidence_profile, decision_state, scores, marketVars>>

-----------------------------------------------------------------------------
\* Market Pulse
\*
\* Skill names and trend labels are sequences of one-character strings, so that
\* strip() and lower() are computed character by character.

UpperChars == <<"A", "B", "C", "D", "E", "F", "G", "H", "I", "J", "K", "L", "M", "N", "O", "P", "Q", "R", "S", "T", "U", "V", "W", "X", "Y", "Z">>

LowerChars == <<"a", "b", "c", "d", "e", "f", "g", "h", "i", "j", "k", "l", "m", "n", "o", "p", "q", "r", "s", "t", "u", "v", "w", "x", "y", "z">>

Whitespace == {" ", "\t", "\n"}

\* upper-case letter -> lower-case letter
LowerMap == [c \in {UpperChars[i] : i \in 1..Len(UpperChars)} |->
                LowerChars[CHOOSE i \in 1..Len(UpperChars) : UpperChars[i] = c]]

\* str.lower() on one character
LowerChar(c) == IF c \in DOMAIN LowerMap THEN LowerMap[c] ELSE c

\* str.lower()
Lower(s) == [i \in 1..Len(s) |-> LowerChar(s[i])]

RECURSIVE LStrip(_)
LStrip(s) ==
    IF s # <<>> /\ Head(s) \in Whitespace THEN LStrip(Tail(s)) ELSE s

RECURSIVE RStrip(_)
RStrip(s) ==
    IF s # <<>> /\ s[Len(s)] \in Whitespace
    THEN RStrip(SubSeq(s, 1, Len(s) - 1)) ELSE s

\* str.strip()
Strip(s) == RStrip(LStrip(s))

\* MarketPulse._normalize_skill
normalize_skill(skill) == Lower(Strip(skill))

SkillMarketSignal(jobs, blogs, saturation, previous_jobs) ==
    [jobs |-> jobs, blogs |-> blogs, saturation |-> saturation,
     previous_jobs |-> previous_jobs]

\* MarketState.skills: the static table, keyed as the source spells the names
MarketSkills ==
    <<"R", "e", "a", "c", "t">> :> SkillMarketSignal(4200, 380, "high", 4500) @@
    <<"N", "e", "x", "t", ".", "j", "s">> :> SkillMarketSignal(2600, 240, "medium", 2300) @@
    <<"V", "u", "e", ".", "j", "s">> :> SkillMarketSignal(1200, 150, "medium", 1100) @@
    <<"P", "y", "t", "h", "o", "n">> :> SkillMarketSignal(5100, 420, "medium", 4800) @@
    <<"J", "a", "v", "a">> :> SkillMarketSignal(4700, 300, "medium", 5000) @@
    <<"N", "o", "d", "e", ".", "j", "s">> :> SkillMarketSignal(3800, 350, "high", 4000) @@
    <<"G", "o">> :> SkillMarketSignal(1500, 180, "low", 1100) @@
    <<"D", "o", "c", "k", "e", "r">> :> SkillMarketSignal(3600, 260, "medium", 3400) @@
    <<"A", "W", "S">> :> SkillMarketSignal(5400, 410, "medium", 5000) @@
    <<"T", "e", "n", "s", "o", "r", "F", "l", "o", "w">> :> SkillMarketSignal(1800, 260, "high", 2000) @@
    <<"P", "y", "T", "o", "r", "c", "h">> :> SkillMarketSignal(2100, 290, "medium", 1900) @@
    <<"R", "u", "s", "t">> :> SkillMarketSignal(900, 120, "low", 700) @@
    <<"P", "H", "P">> :> SkillMarketSignal(1600, 90, "high", 1900)

RISING == <<"r", "i", "s", "i", "n", "g">>

STABLE == <<"s", "t", "a", "b", "l", "e">>

DECLINING == <<"d", "e", "c", "l", "i", "n", "i", "n", "g">>

NICHE == <<"n", "i", "c", "h", "e">>

\* TREND_MULTIPLIERS, in tenths
TREND_MULTIPLIERS == RISING :> 11 @@ STABLE :> 10 @@ DECLINING :> 9 @@ NICHE :> 9

\* SATURATION_PENALTIES, in thousandths
SATURATION_PENALTIES == "high" :> -150 @@ "medium" :> 0 @@ "low" :> 100

\* MIN_MULTIPLIER 0.7, in thousandths
MIN_MULTIPLIER == 700

\* MAX_MULTIPLIER 1.3, in thousandths
MAX_MULTIPLIER == 1300

\* _calculate_trend: (current - previous) / previous against +-15%
calculate_trend(current, previous) ==
    IF previous = 0 THEN RISING
    ELSE IF (current - previous) * 100 >= 15 * previous THEN RISING
    ELSE IF (current - previous) * 100 <= -15 * previous THEN DECLINING
    ELSE STABLE

\* round(x, 2) for x >= 0 in thousandths: the nearest hundredth, ties to even
Round2(x) ==
    LET q == x \div 10
        r == x % 10
    IN  IF r < 5 THEN q
        ELSE IF r > 5 THEN q + 1
        ELSE IF q % 2 = 0 THEN q ELSE q + 1

\* the multiplier of a known skill before clamping, in thousandths
RawKnownMultiplier(signal) ==
    LET demand ==
            IF signal.jobs > 4500 THEN 1200
            ELSE IF signal.jobs > 2500 THEN 1100
            ELSE IF signal.jobs < 1000 THEN 900
            ELSE 1000
        trend == calculate_trend(signal.jobs, signal.previous_jobs)
        trended == (demand * Get(TREND_MULTIPLIERS, trend, 10)) \div 10
    IN  trended + Get(SATURATION_PENALTIES, signal.saturation, 0)

\* a plausible slip: the clamp to [MIN_MULTIPLIER, MAX_MULTIPLIER] left out
known_skill_multiplier_unclamped(signal) ==
    Round2(RawKnownMultiplier(signal))

\* MarketPulse._known_skill_multiplier, in hundredths
known_skill_multiplier(signal) ==
    Round2(Min(Max(RawKnownMultiplier(signal), MIN_MULTIPLIER), MAX_MULTIPLIER))

\* What the remote classifier call can produce:
\*   error        the call raised (timeout, transport error)
\*   unparsable   the content is not JSON
\*   non_object   JSON that is no object (data.get raises)
\*   bad_trend    an object whose trend is no string (.lower() raises)
\*   no_trend     an object without a trend field
\*   trend        an object with a string trend
TrendTexts ==
    {RISING, STABLE, DECLINING, NICHE,
     <<"R", "I", "S", "I", "N", "G">>,
     <<"b", "o", "o", "m", "i", "n", "g">>}

Responses ==
    {[kind |-> k, trend |-> <<>>] :
        k \in {"error", "unparsable", "non_object", "bad_trend", "no_trend"}}
    \cup {[kind |-> "trend", trend |-> t] : t \in TrendTexts}

\* the response recorded for a call that did not reach the classifier
NoResponse == [kind |-> "none", trend |-> <<>>]

\* the failures the except clause of _classify_unknown_skill catches
Raises(resp) == resp.kind \in {"error", "unparsable", "non_object", "bad_trend"}

\* a plausible slip: the result cached under the name as given
classify_unknown_skill_rawkey(skill, resp, c) ==
    LET normalized == normalize_skill(skill)
    IN  IF normalized \in DOMAIN c
        THEN [value |-> c[normalized], cache |-> c, outcome |-> "hit"]
        ELSE IF Raises(resp)
        THEN [value |-> 100, cache |-> c, outcome |-> "failed"]
        ELSE LET trend == IF resp.kind = "no_trend" THEN STABLE
                          ELSE Lower(resp.trend)
                 multiplier == Get(TREND_MULTIPLIERS, trend, 10) * 10
             IN  [value |-> multiplier,
                  cache |-> (skill :> multiplier) @@ c,
                  outcome |-> "classified"]

\* a plausible slip: the neutral fallback cached like a classification
classify_unknown_skill_cachefail(skill, resp, c) ==
    LET normalized == normalize_skill(skill)
    IN  IF normalized \in DOMAIN c
        THEN [value |-> c[normalized], cache |-> c, outcome |-> "hit"]
        ELSE IF Raises(resp)
        THEN [value |-> 100, cache |-> (normalized :> 100) @@ c,
              outcome |-> "failed"]
        ELSE LET trend == IF resp.kind = "no_trend" THEN STABLE
                          ELSE Lower(resp.trend)
                 multiplier == Get(TREND_MULTIPLIERS, trend, 10) * 10
             IN  [value |-> multiplier,
                  cache |-> (normalized :> multiplier) @@ c,
                  outcome |-> "classified"]

\* MarketPulse._classify_unknown_skill with cache c and classifier response
\* resp: the returned multiplier (hundredths), the cache afterwards, the path
classify_unknown_skill(skill, resp, c) ==
    LET normalized == normalize_skill(skill)
    IN  IF normalized \in DOMAIN c
        THEN [value |-> c[normalized], cache |-> c, outcome |-> "hit"]
        ELSE IF Raises(resp)
        THEN [value |-> 100, cache |-> c, outcome |-> "failed"]
        ELSE LET trend == IF resp.kind = "no_trend" THEN STABLE
                          ELSE Lower(resp.trend)
                 multiplier == Get(TREND_MULTIPLIERS, trend, 10) * 10
             IN  [value |-> multiplier,
                  cache |-> (normalized :> multiplier) @@ c,
                  outcome |-> "classified"]

\* MarketPulse.get_market_multiplier with cache c and classifier response resp
get_market_multiplier(skill, resp, c) ==
    LET normalized == normalize_skill(skill)
    IN  IF normalized \in DOMAIN MarketSkills
        THEN [value |-> known_skill_multiplier(MarketSkills[normalized]),
              cache |-> c, outcome |-> "known"]
        ELSE classify_unknown_skill(skill, resp, c)

\* the classifier was invoked on this path
Invoked(outcome) == outcome \in {"classified", "failed"}

\* the cache was looked up on this path
CacheRead(outcome) == outcome \in {"hit", "classified", "failed"}

\* a call of get_market_multiplier(skill); resp is what the classifier answers
\* if it is invoked
GetMarketMultiplier(skill, resp) ==
    /\ Len(calls) < MaxCalls
    /\ LET r == get_market_multiplier(skill, resp, cache)
       IN  /\ cache' = r.cache
           /\ calls' = Append(calls,
                  [op |-> "get_market_multiplier",
                   skill |-> skill,
                   value |-> r.value,
                   outcome |-> r.outcome,
                   response |-> IF Invoked(r.outcome) THEN resp ELSE NoResponse,
                   cache_read |-> CacheRead(r.outcome),
                   cache_written |-> (r.cache # cache)])
    /\ UNCHANGED sessionVars

\* a direct call of _known_skill_multiplier(signal)
KnownSkillMultiplier(signal) ==
    /\ Len(calls) < MaxCalls
    /\ calls' = Append(calls,
           [op |-> "known_skill_multiplier",
            skill |-> <<>>,
            value |-> known_skill_multiplier(signal),
            outcome |-> "known",
            response |-> NoResponse,
            cache_read |-> FALSE,
            cache_written |-> FALSE])
    /\ UNCHANGED <<cache, sessionVars>>

PYTHON == <<"P", "y", "t", "h", "o", "n">>

RUST == <<"R", "u", "s", "t">>

HTMX == <<"H", "T", "M", "X">>

HTMX_VARIANT == <<" ", "h", "t", "m", "x", " ">>

RUST_EMBEDDED == <<"R", "u", "s", "t", " ", "E", "m", "b", "e", "d", "d", "e", "d">>

\* the skill names callers ask about
SkillInputs == {PYTHON, RUST, HTMX, HTMX_VARIANT, RUST_EMBEDDED}

\* signals _known_skill_multiplier is applied to: the table's, and extremes
SignalInputs ==
    {MarketSkills[k] : k \in DOMAIN MarketSkills}
    \cup {SkillMarketSignal(j, 0, sat, p) :
            j \in {500, 5000}, sat \in {"low", "high"}, p \in {0, 1000}}

MarketInit ==
    /\ cache = EmptyDict
    /\ calls = <<>>

MarketSpecInit ==
    /\ basic_profile = DefaultBasicProfile
    /\ interest_profile = None
    /\ context_profile = None
    /\ evidence_profile = None
    /\ decision_state = None
    /\ scores = None
    /\ raised = "none"
    /\ MarketInit

MarketNext ==
    \/ \E skill \in SkillInputs, resp \in Responses :
           GetMarketMultiplier(skill, resp)
    \/ \E signal \in SignalInputs : KnownSkillMultiplier(signal)

MarketSpec == MarketSpecInit /\ [][MarketNext]_vars

-----------------------------------------------------------------------------
\* Interactions that consult the market (panic bot, explanation bot)

REACT == <<"R", "e", "a", "c", "t">>

ALGORITHMS == <<"A", "l", "g", "o", "r", "i", "t", "h", "m", "s">>

\* the keys of MarketState.skills in insertion order (the order snapshot()
\* visits them)
MarketSkillNames ==
    <<REACT,
      <<"N", "e", "x", "t", ".", "j", "s">>,
      <<"V", "u", "e", ".", "j", "s">>,
      PYTHON,
      <<"J", "a", "v", "a">>,
      <<"N", "o", "d", "e", ".", "j", "s">>,
      <<"G", "o">>,
      <<"D", "o", "c", "k", "e", "r">>,
      <<"A", "W", "S">>,
      <<"T", "e", "n", "s", "o", "r", "F", "l", "o", "w">>,
      <<"P", "y", "T", "o", "r", "c", "h">>,
      RUST,
      <<"P", "H", "P">>>>

\* the classifier answered with one of the four trend labels
Recognised(resp) ==
    /\ resp.kind = "trend"
    /\ Lower(resp.trend) \in {RISING, STABLE, DECLINING, NICHE}

\* one get_market_multiplier(name) of snapshot(), on the running result acc:
\* the instance's cache, the number of lookups made so far, and the
\* normalized names for which the classifier was invoked and for which it
\* answered with a recognised trend. resp is what the classifier answers.
snapshot_lookup(acc, name, resp) ==
    LET r == get_market_multiplier(name, resp, acc.cache)
    IN  [cache |-> r.cache,
         visited |-> acc.visited + 1,
         invoked |->
             acc.invoked \cup
                 (IF Invoked(r.outcome) THEN {normalize_skill(name)} ELSE {}),
         classified |->
             acc.classified \cup
                 (IF r.outcome = "classified" /\ Recognised(resp)
                  THEN {normalize_skill(name)} ELSE {})]

\* the lookups of names, in order, continued from acc
RECURSIVE snapshot_loop(_, _, _)
snapshot_loop(names, resp, acc) ==
    IF acc.visited = Len(names) THEN acc
    ELSE snapshot_loop(names, resp,
                       snapshot_lookup(acc, names[acc.visited + 1], resp))

\* the names visited by k calls of snapshot() in a row
RECURSIVE SnapshotNames(_)
SnapshotNames(k) ==
    IF k = 0 THEN <<>> ELSE SnapshotNames(k - 1) \o MarketSkillNames

\* MarketPulse.snapshot() called k times on an instance whose cache is c
snapshots(k, resp, c) ==
    snapshot_loop(SnapshotNames(k), resp,
                  [cache |-> c, visited |-> 0, invoked |-> {},
                   classified |-> {}])

\* focus_skill_map of the panic bot and of the explanation bot
focus_skill_map ==
    [p \in PathSet |->
        CASE p = "Frontend Engineering" -> REACT
          [] p = "Backend Engineering" -> PYTHON
          [] p = "Data Science / ML" -> PYTHON
          [] p = "Competitive Programming" -> ALGORITHMS]

\* the number of paths in a list that focus_skill_map gives a skill
MappedPaths(paths) ==
    Cardinality({i \in 1..Len(paths) :
                    Get(focus_skill_map, paths[i], <<>>) # <<>>})

\* MarketPulse(client=...): the caller's instance is replaced by a new one,
\* whose cache is empty
NewMarketPulse ==
    /\ cache' = EmptyDict
    /\ UNCHANGED <<calls, sessionVars>>

\* handle_panic(user_state, message): without a decision an error record;
\* otherwise a MarketPulse of its own and one snapshot() of it when the first
\* focus path has a mapped skill
HandlePanic(resp) ==
    /\ Len(calls) < MaxCalls
    /\ LET s == IF decision_state = None
                THEN snapshots(0, resp, EmptyDict)
                ELSE snapshots(MappedPaths(<<decision_state.focus[1]>>),
                               resp, EmptyDict)
       IN  calls' = Append(calls,
               [op |-> "handle_panic",
                error |-> (decision_state = None),
                invoked |-> s.invoked,
                classified |-> s.classified])
    /\ UNCHANGED <<cache, sessionVars>>

\* explain_decision(user_state): without a decision an error record; otherwise
\* a MarketPulse of its own and one snapshot() of it per listed path that has
\* a mapped skill
ExplainDecision(resp) ==
    /\ Len(calls) < MaxCalls
    /\ LET s == IF decision_state = None
                THEN snapshots(0, resp, EmptyDict)
                ELSE snapshots(MappedPaths(decision_state.focus
                                               \o decision_state.park
                                               \o decision_state.drop),
                               resp, EmptyDict)
       IN  calls' = Append(calls,
               [op |-> "explain_decision",
                error |-> (decision_state = None),
                invoked |-> s.invoked,
                classified |-> s.classified])
    /\ UNCHANGED <<cache, sessionVars>>

\* the session of the panic demo, before and after its decision is attached
PanicDemoBasicProfile ==
    [college_tier |-> 3, year_of_study |-> 4, time_availability |-> 5]

PanicDemoDecision ==
    [focus |-> <<"Backend Engineering">>,
     park |-> <<"Frontend Engineering">>,
     drop |-> <<"Data Science / ML">>,
     reasons |-> EmptyDict]

InteractionInit ==
    /\ basic_profile = PanicDemoBasicProfile
    /\ interest_profile = None
    /\ context_profile =
           [strictness_level |-> "HIGH", urgency_level |-> "HIGH",
            max_focus_skills |-> 1, proof_expectation |-> "STRONG"]
    /\ evidence_profile =
           [github_stats |-> EmptyDict, leetcode_stats |-> EmptyDict]
    /\ decision_state \in {None, PanicDemoDecision}
    /\ scores = None
    /\ raised = "none"
    /\ MarketInit

InteractionNext ==
    \/ \E skill \in SkillInputs, resp \in Responses :
           GetMarketMultiplier(skill, resp)
    \/ NewMarketPulse
    \/ \E resp \in Responses : HandlePanic(resp)
    \/ \E resp \in Responses : ExplainDecision(resp)

InteractionSpec == InteractionInit /\ [][InteractionNext]_vars

-----------------------------------------------------------------------------
\* Context specification: build_context called repeatedly on a session that
\* changes between the calls

\* the profiles of the scenarios, tests and demos
ContextBasics ==
    {[college_tier |-> 3, year_of_study |-> 3, time_availability |-> 6],
     [college_tier |-> 1, year_of_study |-> 1, time_availability |-> 20],
     [college_tier |-> 3, year_of_study |-> 3, time_availability |-> 8],
     [college_tier |-> 3, year_of_study |-> 4, time_availability |-> 5],
     [college_tier |-> 2, year_of_study |-> 2, time_availability |-> 12]}

\* build_context(user_state), logged
BuildContextCall ==
    /\ Len(calls) < MaxCalls
    /\ context_profile' = build_context(context_profile, basic_profile)
    /\ calls' = Append(calls,
           [op |-> "build_context",
            basic |-> basic_profile,
            before |-> context_profile,
            after |-> context_profile'])
    /\ raised' = "none"
    /\ UNCHANGED <<basic_profile, interest_profile, evidence_profile,
                   decision_state, scores, cache>>

\* user_state.basic_profile = BasicProfile(...): the caller replaces the
\* profile (it is a plain attribute of a plain dataclass)
ReplaceBasicProfile(basic) ==
    /\ basic_profile' = basic
    /\ raised' = "none"
    /\ UNCHANGED <<interest_profile, context_profile, evidence_profile,
                   decision_state, scores, marketVars>>

ContextInit ==
    /\ basic_profile \in ContextBasics
    /\ interest_profile = None
    /\ context_profile = None
    /\ evidence_profile = None
    /\ decision_state = None
    /\ scores = None
    /\ raised = "none"
    /\ MarketInit

ContextNext ==
    \/ BuildContextCall
    \/ \E basic \in ContextBasics : ReplaceBasicProfile(basic)
    \/ \E bias \in InterestSignals : AnalyzeInterests(bias)
    \/ MakeDecision

ContextSpec == ContextInit /\ [][ContextNext]_vars

-----------------------------------------------------------------------------
\* Interest specification: analyze_interests called repeatedly on a session
\* that other operations change between the calls

\* the InterestProfile the decision demo attaches itself; it comes from no
\* extraction outcome of InterestSignals
CallerInterestProfile ==
    [interest_bias |-> [development |-> 6, problem_solving |-> 8, data |-> 2],
     confidence_level |-> "HIGH",
     exploration_allowed |-> FALSE]

\* analyze_interests(user_state, answers), logged
AnalyzeInterestsCall(bias) ==
    /\ Len(calls) < MaxCalls
    /\ LET r == analyze_interests(interest_profile, bias)
       IN  /\ interest_profile' = r.profile
           /\ calls' = Append(calls,
                  [op |-> "analyze_interests",
                   bias |-> bias,
                   before |-> interest_profile,
                   after |-> r.profile,
                   extracted |-> r.extracted])
    /\ raised' = "none"
    /\ UNCHANGED <<basic_profile, context_profile, evidence_profile,
                   decision_state, scores, cache>>

InterestInit ==
    /\ basic_profile = DefaultBasicProfile
    /\ interest_profile \in {None, CallerInterestProfile}
    /\ context_profile = None
    /\ evidence_profile = None
    /\ decision_state = None
    /\ scores = None
    /\ raised = "none"
    /\ MarketInit

InterestNext ==
    \/ \E bias \in InterestSignals : AnalyzeInterestsCall(bias)
    \/ BuildContext
    \/ \E gh \in GithubInputs, lc \in LeetcodeInputs : AttachEvidence(gh, lc)
    \/ MakeDecision

InterestSpec == InterestInit /\ [][InterestNext]_vars

-----------------------------------------------------------------------------
\* Orchestrator: the full pipeline

\* a plausible slip: out-of-range values clamped into range
BasicProfile_clamped(college_tier, year_of_study, time_availability) ==
    [raised |-> "none",
     profile |->
         [college_tier |-> Max(1, Min(college_tier, 3)),
          year_of_study |-> Max(1, Min(year_of_study, 5)),
          time_availability |-> Max(time_availability, 0)]]

\* BasicProfile(...): the dataclass constructor; __post_init__ raises
\* ValueError on the first field out of range
BasicProfile(college_tier, year_of_study, time_availability) ==
    IF ~(1 <= college_tier /\ college_tier <= 3)
    THEN [raised |-> "ValueError: Invalid college_tier", profile |-> None]
    ELSE IF ~(1 <= year_of_study /\ year_of_study <= 5)
    THEN [raised |-> "ValueError: Invalid year_of_study", profile |-> None]
    ELSE IF time_availability < 0
    THEN [raised |-> "ValueError: Time availability cannot be negative",
          profile |-> None]
    ELSE [raised |-> "none",
          profile |->
              [college_tier |-> college_tier,
               year_of_study |-> year_of_study,
               time_availability |-> time_availability]]

\* the arguments run_full_analysis passes to BasicProfile: basic_data.get
\* with the defaults 3, 1 and 10
BasicArgs(basic_data) ==
    [college_tier |-> Get(basic_data, "college_tier", 3),
     year_of_study |-> Get(basic_data, "year", 1),
     time_availability |-> Get(basic_data, "hours", 10)]

\* the result of a run that raised: what was attached to its UserState when
\* it raised, and no output
Aborted(exception, stages, basic, context) ==
    [raised |-> exception,
     stages |-> stages,
     basic |-> basic,
     context |-> context,
     evidence |-> None,
     interest |-> None,
     decision |-> None,
     scores |-> None,
     output |-> None]

\* run_full_analysis: the stages entered in order, the exception that ended
\* the run or "none", the profiles attached to the run's UserState, and the
\* output. gh and lc are what the two scrapers return and bias what the
\* interest extraction returns. The advisor, the roadmap and the explanation
\* catch their own failures and return a dict each.
run_full_analysis(basic_data, gh, lc, bias) ==
    LET args == BasicArgs(basic_data)
        made == BasicProfile(args.college_tier, args.year_of_study,
                             args.time_availability)
    IN  IF made.raised # "none"
        THEN Aborted(made.raised, <<>>, None, None)
        ELSE
        LET basic == made.profile
            context == build_context(None, basic)
            ev == build_evidence(gh, lc)
        IN  IF ev.raised # "none"
            THEN Aborted(ev.raised, <<"context", "evidence">>, basic, context)
            ELSE
            LET interest == analyze_interests(None, bias).profile
                sc == ComputeScores(basic, ev.profile, interest)
                decision == Decide(sc, context.max_focus_skills)
            IN  [raised |-> "none",
                 stages |-> <<"context", "evidence", "interests", "decision",
                              "advisor", "roadmap", "explanation">>,
                 basic |-> basic,
                 context |-> context,
                 evidence |-> ev.profile,
                 interest |-> interest,
                 decision |-> decision,
                 scores |-> sc,
                 output |->
                     [status |-> "success",
                      context |->
                          [urgency |-> context.urgency_level,
                           strictness |-> context.strictness_level,
                           max_focus |-> context.max_focus_skills],
                      interest_bias |-> interest.interest_bias,
                      evidence_flags |-> ev.profile.flags,
                      decisions |-> decision]]

\* Orchestrator().run_full_analysis(...), logged: the log holds the latest
\* call. The session is the UserState of the run; a run that raised before
\* it constructed one leaves the session of the run before it.
RunFullAnalysis(basic_data, gh, lc, bias) ==
    \E r \in {run_full_analysis(basic_data, gh, lc, bias)} :
        /\ raised' = r.raised
        /\ calls' = <<[op |-> "run_full_analysis",
                       basic_data |-> basic_data,
                       github_stats |-> gh,
                       leetcode_stats |-> lc,
                       bias |-> bias,
                       raised |-> r.raised,
                       stages |-> r.stages,
                       basic |-> r.basic,
                       context |-> r.context,
                       evidence |-> r.evidence,
                       interest |-> r.interest,
                       decision |-> r.decision,
                       output |-> r.output]>>
        /\ IF r.basic = None
           THEN UNCHANGED <<basic_profile, context_profile, evidence_profile,
                            interest_profile, decision_state, scores>>
           ELSE /\ basic_profile' = r.basic
                /\ context_profile' = r.context
                /\ evidence_profile' = r.evidence
                /\ interest_profile' = r.interest
                /\ decision_state' = r.decision
                /\ scores' = r.scores
        /\ UNCHANGED cache

\* user_state.basic_profile = BasicProfile(...) by a caller, logged; a
\* constructor that raises assigns nothing
NewBasicProfile(college_tier, year_of_study, time_availability) ==
    LET made == BasicProfile(college_tier, year_of_study, time_availability)
    IN  /\ raised' = made.raised
        /\ calls' = <<[op |-> "BasicProfile",
                       college_tier |-> college_tier,
                       year_of_study |-> year_of_study,
                       time_availability |-> time_availability,
                       raised |-> made.raised,
                       profile |-> made.profile]>>
        /\ basic_profile' =
               IF made.raised = "none" THEN made.profile ELSE basic_profile
        /\ UNCHANGED <<context_profile, evidence_profile, interest_profile,
                       decision_state, scores, cache>>

\* basic_data dicts: empty, in range (the edges included), and out of range
\* in one field or more
BasicDataInputs ==
    {EmptyDict,
     [college_tier |-> 3, year |-> 3, hours |-> 8],
     [college_tier |-> 1, year |-> 1, hours |-> 20],
     [college_tier |-> 2, year |-> 5, hours |-> 0],
     [college_tier |-> 0],
     [college_tier |-> 4, year |-> 2, hours |-> 10],
     [year |-> 0],
     [year |-> 6],
     [hours |-> 0 - 1],
     [college_tier |-> 5, year |-> 7, hours |-> 0 - 5]}

TierInputs == {0, 1, 3, 4}

YearInputs == {0, 1, 5, 6}

HoursInputs == {0 - 1, 0, 10}

\* what get_github_stats returns: None or a record marked valid
ScrapedGithub == {r \in GithubRecords : r = None \/ Get(r, "valid", FALSE)}

\* what get_leetcode_stats returns: None or a record marked valid
ScrapedLeetcode ==
    {r \in LeetcodeRecords : r = None \/ Get(r, "valid", FALSE)}

\* what the interest extraction returns in a run: weights, or the fallback
PipelineSignals ==
    {[development |-> 8, problem_solving |-> 0, data |-> 0],
     [development |-> 3, problem_solving |-> 3, data |-> 3]}

PipelineInit ==
    /\ basic_profile = DefaultBasicProfile
    /\ interest_profile = None
    /\ context_profile = None
    /\ evidence_profile = None
    /\ decision_state = None
    /\ scores = None
    /\ raised = "none"
    /\ MarketInit

PipelineNext ==
    \/ \E basic_data \in BasicDataInputs, gh \in ScrapedGithub,
          lc \in ScrapedLeetcode, bias \in PipelineSignals :
           RunFullAnalysis(basic_data, gh, lc, bias)
    \/ \E t \in TierInputs, y \in YearInputs, h \in HoursInputs :
           NewBasicProfile(t, y, h)

PipelineSpec == PipelineInit /\ [][PipelineNext]_vars

-----------------------------------------------------------------------------
\* Decision precondition specification: make_decision called on sessions the
\* callers assembled by hand, with profiles still missing

\* the session of the roadmap demo: a decision attached by the caller, no
\* ContextProfile
RoadmapDemoBasicProfile ==
    [college_tier |-> 3, year_of_study |-> 3, time_availability |-> 6]

RoadmapDemoDecision ==
    [focus |-> <<"Backend Engineering">>,
     park |-> <<>>,
     drop |-> <<>>,
     reasons |-> EmptyDict]

\* make_decision(user), logged
MakeDecisionCall ==
    /\ Len(calls) < MaxCalls
    /\ \E r \in {make_decision(basic_profile, context_profile,
                                evidence_profile, interest_profile)} :
           /\ raised' = r.raised
           /\ IF r.raised # "none"
              THEN UNCHANGED <<decision_state, scores>>
              ELSE /\ scores' = r.scores
                   /\ decision_state' = r.decision
           /\ calls' = Append(calls,
                  [op |-> "make_decision",
                   context |-> context_profile,
                   has_evidence |-> evidence_profile # None,
                   has_interest |-> interest_profile # None,
                   before |-> decision_state,
                   after |-> decision_state',
                   raised |-> r.raised])
    /\ UNCHANGED <<basic_profile, interest_profile, context_profile,
                   evidence_profile, cache>>

PreconditionInit ==
    /\ basic_profile = RoadmapDemoBasicProfile
    /\ interest_profile \in {None, CallerInterestProfile}
    /\ context_profile = None
    /\ evidence_profile = None
    /\ decision_state \in {None, RoadmapDemoDecision}
    /\ scores = None
    /\ raised = "none"
    /\ MarketInit

PreconditionNext ==
    \/ MakeDecisionCall
    \/ BuildContext
    \/ \E bias \in PipelineSignals : AnalyzeInterests(bias)
    \/ \E lc \in LeetcodeInputs : AttachEvidence(EmptyDict, lc)

PreconditionSpec == PreconditionInit /\ [][PreconditionNext]_vars

-----------------------------------------------------------------------------
\* Scrapers: the external profile lookups
\*
\* The outcome of requests.get is a record: a response with a status code and
\* a body that is a JSON object (json = "dict", body = its fields) or no JSON
\* at all (json = "not_json"), or an exception of requests (a timeout, a
\* connection error). The fields username and top_lang of the GitHub record,
\* which nothing downstream reads, are left out.

HttpResponse(status, json, body) ==
    [kind |-> "response", status |-> status, json |-> json, body |-> body]

\* requests.get raised requests.exceptions.Timeout
TimedOut ==
    [kind |-> "Timeout", status |-> 0, json |-> "not_json", body |-> EmptyDict]

\* requests.get raised requests.exceptions.ConnectionError
ConnectionFailed ==
    [kind |-> "ConnectionError", status |-> 0, json |-> "not_json",
     body |-> EmptyDict]

\* the exception class Response.json() raises on a body that is no JSON: a
\* RequestException in requests 2.27 and later, a plain ValueError before;
\* the repository pins no version
DecodeErrors == {"RequestException", "ValueError"}

\* sum of a field over the repositories of the listing
RECURSIVE SumField(_, _)
SumField(repos, field) ==
    IF repos = <<>> THEN 0
    ELSE Get(Head(repos), field, 0) + SumField(Tail(repos), field)

\* what a scraper hands back: the exception that left it or "none", and the
\* value it returned
Returned(value) == [raised |-> "none", value |-> value]

Raised(exception) == [raised |-> exception, value |-> None]

\* response.json(): the body, or the decode error of the installed requests;
\* a RequestException is caught by the scraper's except clause (it returns
\* None), a ValueError is not
JsonFails(resp) == resp.json = "not_json"

JsonFailure(decode_error) ==
    IF decode_error = "RequestException"
    THEN Returned(None)
    ELSE Raised("ValueError")

\* get_github_stats(username)
get_github_stats(username, user_resp, repos_resp, decode_error) ==
    IF username = "" THEN Returned(None)
    ELSE IF user_resp.kind # "response" THEN Returned(None)
    ELSE IF user_resp.status = 404 THEN Returned(None)
    ELSE IF JsonFails(user_resp) THEN JsonFailure(decode_error)
    ELSE IF repos_resp.kind # "response" THEN Returned(None)
    ELSE IF repos_resp.status = 200 /\ JsonFails(repos_resp)
    THEN JsonFailure(decode_error)
    ELSE
    LET user_data == user_resp.body
        repos_data ==
            IF repos_resp.status = 200
            THEN Get(repos_resp.body, "items", <<>>)
            ELSE <<>>
    IN  Returned([valid |-> TRUE,
                  repos |-> Get(user_data, "public_repos", 0),
                  stars |-> SumField(repos_data, "stargazers_count"),
                  forks |-> SumField(repos_data, "forks_count"),
                  account_created |-> Get(user_data, "created_at", NoDate)])

\* get_leetcode_stats(username)
get_leetcode_stats(username, response, decode_error) ==
    IF username = "" THEN Returned(None)
    ELSE IF response.kind # "response" THEN Returned(None)
    ELSE IF response.status # 200 THEN Returned(None)
    ELSE IF JsonFails(response) THEN JsonFailure(decode_error)
    ELSE IF "solvedProblem" \notin DOMAIN response.body THEN Returned(None)
    ELSE Returned([valid |-> TRUE,
                   total_solved |-> Get(response.body, "solvedProblem", 0),
                   easy |-> Get(response.body, "easySolved", 0),
                   medium |-> Get(response.body, "mediumSolved", 0),
                   hard |-> Get(response.body, "hardSolved", 0)])

\* get_github_stats(username), logged
GetGithubStats(username, user_resp, repos_resp, decode_error) ==
    /\ Len(calls) < MaxCalls
    /\ \E r \in {get_github_stats(username, user_resp, repos_resp,
                                   decode_error)} :
           /\ raised' = r.raised
           /\ calls' = Append(calls,
                  [op |-> "get_github_stats",
                   username |-> username,
                   lookup |-> user_resp,
                   listing |-> repos_resp,
                   raised |-> r.raised,
                   result |-> r.value])
    /\ UNCHANGED <<basic_profile, interest_profile, context_profile,
                   evidence_profile, decision_state, scores, cache>>

\* get_leetcode_stats(username), logged
GetLeetcodeStats(username, response, decode_error) ==
    /\ Len(calls) < MaxCalls
    /\ \E r \in {get_leetcode_stats(username, response, decode_error)} :
           /\ raised' = r.raised
           /\ calls' = Append(calls,
                  [op |-> "get_leetcode_stats",
                   username |-> username,
                   lookup |-> response,
                   listing |-> response,
                   raised |-> r.raised,
                   result |-> r.value])
    /\ UNCHANGED <<basic_profile, interest_profile, context_profile,
                   evidence_profile, decision_state, scores, cache>>

\* outcomes of GET /users/{username}: found, not found, rate-limited and
\* server error with a JSON message, a server error page, no response
GithubUserOutcomes ==
    {HttpResponse(200, "dict",
                  [created_at |-> CreatedAt(1100), public_repos |-> 4]),
     HttpResponse(404, "dict", [message |-> "Not Found"]),
     HttpResponse(403, "dict", [message |-> "API rate limit exceeded"]),
     HttpResponse(500, "not_json", EmptyDict),
     TimedOut}

\* outcomes of GET /users/{username}/repos
GithubReposOutcomes ==
    {HttpResponse(200, "dict",
                  [items |-> <<[stargazers_count |-> 3, forks_count |-> 1],
                               [stargazers_count |-> 2]>>]),
     HttpResponse(403, "dict", [message |-> "API rate limit exceeded"]),
     ConnectionFailed}

\* outcomes of GET /{username}/solved
LeetcodeOutcomes ==
    {HttpResponse(200, "dict",
                  [solvedProblem |-> 5, easySolved |-> 4, mediumSolved |-> 1]),
     HttpResponse(200, "dict", [errors |-> "user does not exist"]),
     HttpResponse(200, "not_json", EmptyDict),
     HttpResponse(404, "dict", EmptyDict),
     HttpResponse(429, "dict", [message |-> "Too many requests"]),
     HttpResponse(500, "not_json", EmptyDict),
     TimedOut,
     ConnectionFailed}

Usernames == {"", "octocat"}

ScraperInit ==
    /\ basic_profile = DefaultBasicProfile
    /\ interest_profile = None
    /\ context_profile = None
    /\ evidence_profile = None
    /\ decision_state = None
    /\ scores = None
    /\ raised = "none"
    /\ MarketInit

ScraperNext ==
    \/ \E username \in Usernames, user_resp \in GithubUserOutcomes,
          repos_resp \in GithubReposOutcomes, decode_error \in DecodeErrors :
           GetGithubStats(username, user_resp, repos_resp, decode_error)
    \/ \E username \in Usernames, response \in LeetcodeOutcomes,
          decode_error \in DecodeErrors :
           GetLeetcodeStats(username, response, decode_error)

ScraperSpec == ScraperInit /\ [][ScraperNext]_vars

-----------------------------------------------------------------------------
\* Override interpreter
\*
\* The reply of the remote interpreter is a record: kind "error" (the call
\* raised), "unparsable" (content that json.loads rejects), "non_object" (JSON
\* that is no object) or "object" (a JSON object with the fields below). A
\* field value is a record: type "missing" (no such key), "null", "number",
\* "string", "dict" or "list"; items is what iterating the value yields (the
\* elements of a list, the characters of a string, the keys of a dict), and
\* hashable tells whether every item can be looked up in a set.

ALLOWED_PATHS ==
    <<"Frontend Engineering", "Backend Engineering",
      "Data Science / ML", "Competitive Programming">>

JsonValue(type, items, hashable) ==
    [type |-> type, items |-> items, hashable |-> hashable]

Missing == JsonValue("missing", <<>>, TRUE)

JsonNull == JsonValue("null", <<>>, TRUE)

\* [p for p in items if p in valid]
RECURSIVE FilterValid(_, _)
FilterValid(items, valid) ==
    IF items = <<>> THEN <<>>
    ELSE IF Head(items) \in valid
         THEN <<Head(items)>> \o FilterValid(Tail(items), valid)
         ELSE FilterValid(Tail(items), valid)

\* result.get(key, []): a missing key reads as the empty list
GetList(value) ==
    IF value.type = "missing" THEN JsonValue("list", <<>>, TRUE) ELSE value

\* the comprehension over a field raises TypeError when the value cannot be
\* iterated (null, a number) or holds an item that cannot be hashed
FilterRaises(value) ==
    \/ GetList(value).type \in {"null", "number"}
    \/ ~GetList(value).hashable

\* the request of the except clause
NeutralRequest ==
    [failed |-> TRUE,
     hours_per_week |-> JsonNull,
     urgency |-> JsonNull,
     force_include |-> <<>>,
     force_exclude |-> <<>>,
     exploration_allowed |-> JsonNull,
     reason |-> JsonValue("string", <<"Failed to interpret user intent.">>,
                          TRUE)]

\* a plausible slip: the safety filter left out
interpret_override_unfiltered(reply) ==
    IF reply.kind # "object" THEN NeutralRequest
    ELSE IF FilterRaises(reply.force_include)
            \/ FilterRaises(reply.force_exclude)
    THEN NeutralRequest
    ELSE [failed |-> FALSE,
          hours_per_week |-> reply.hours_per_week,
          urgency |-> reply.urgency,
          force_include |-> GetList(reply.force_include).items,
          force_exclude |-> GetList(reply.force_exclude).items,
          exploration_allowed |-> reply.exploration_allowed,
          reason |-> reply.reason]

\* interpret_override(user_state, user_message): the change request it
\* returns for a reply of the remote interpreter. Every exception of the
\* call, of json.loads, of result.get on a non-object and of the two
\* comprehensions is caught and gives the neutral request.
interpret_override(reply) ==
    IF reply.kind # "object" THEN NeutralRequest
    ELSE IF FilterRaises(reply.force_include)
            \/ FilterRaises(reply.force_exclude)
    THEN NeutralRequest
    ELSE LET valid == {ALLOWED_PATHS[i] : i \in 1..Len(ALLOWED_PATHS)}
         IN  [failed |-> FALSE,
              hours_per_week |-> reply.hours_per_week,
              urgency |-> reply.urgency,
              force_include |->
                  FilterValid(GetList(reply.force_include).items, valid),
              force_exclude |->
                  FilterValid(GetList(reply.force_exclude).items, valid),
              exploration_allowed |-> reply.exploration_allowed,
              reason |-> reply.reason]

\* a JSON object of the interpreter with these two list fields
OverrideObject(force_include, force_exclude) ==
    [kind |-> "object",
     hours_per_week |-> JsonValue("number", <<>>, TRUE),
     urgency |-> JsonValue("string", <<"h", "i", "g", "h">>, TRUE),
     force_include |-> force_include,
     force_exclude |-> force_exclude,
     exploration_allowed |-> JsonNull,
     reason |-> JsonValue("string", <<"wants web dev">>, TRUE)]

\* a reply that is no JSON object
OverrideFailure(kind) ==
    [kind |-> kind,
     hours_per_week |-> Missing,
     urgency |-> Missing,
     force_include |-> Missing,
     force_exclude |-> Missing,
     exploration_allowed |-> Missing,
     reason |-> Missing]

\* values the interpreter may put in a list field: lists of fixed paths, of
\* invented paths, with repeats, with an element that is itself a list; no
\* key, null, a number, a string, a dict
ListFieldValues ==
    {JsonValue("list", <<>>, TRUE),
     JsonValue("list", <<"Frontend Engineering">>, TRUE),
     JsonValue("list", <<"Web Development", "Backend Engineering",
                         "frontend engineering">>, TRUE),
     JsonValue("list", <<"Data Science / ML", "Data Science / ML">>, TRUE),
     JsonValue("list", <<"Competitive Programming">>, FALSE),
     Missing,
     JsonNull,
     JsonValue("number", <<>>, TRUE),
     JsonValue("string", <<"B", "a", "c", "k", "e", "n", "d">>, TRUE),
     JsonValue("dict", <<"Backend Engineering", "DevOps">>, TRUE)}

OverrideReplies ==
    {OverrideObject(i, e) : i \in ListFieldValues, e \in ListFieldValues}
    \cup {OverrideFailure(k) : k \in {"error", "unparsable", "non_object"}}

-----------------------------------------------------------------------------
\* Conversational agents: panic bot, advisor, roadmap, explanation, tutor,
\* the Orchestrator's interaction handler and the chat front desk
\*
\* out is the outcome of an agent's remote text-generation call: "json" (a
\* reply that holds a JSON object), "text" (a reply with no JSON in it) or
\* "error" (the call raised). The market lookups of the panic bot and of the
\* explanation bot are made on a MarketPulse of their own (HandlePanic,
\* ExplainDecision above) and change nothing here.

TextOutcomes == {"json", "text", "error"}

\* what an agent hands back: the exception that left it or "none", the kind
\* of dict it returned, the change request in it (None when there is none),
\* and whether a handler of the Orchestrator ran
Reply(kind) ==
    [raised |-> "none", kind |-> kind, changes |-> None,
     orchestrator |-> FALSE]

Raise(exception) ==
    [raised |-> exception, kind |-> "none", changes |-> None,
     orchestrator |-> FALSE]

\* handle_panic(user_state, message)
handle_panic(decision, context, out) ==
    IF decision = None THEN Reply("error")
    ELSE IF decision.focus = <<>> THEN Raise("IndexError")
    ELSE IF context = None THEN Raise("AttributeError")
    ELSE IF out = "json" THEN Reply("panic_response")
    ELSE Reply("fallback_panic_response")

\* advise_decision(user_state)
advise_decision(decision, context, ev, interest, out) ==
    IF decision = None THEN Reply("error")
    ELSE IF ev = None \/ interest = None \/ context = None
    THEN Raise("AttributeError")
    ELSE IF out = "json" THEN Reply("advice")
    ELSE Reply("error")

\* generate_roadmap(user_state)
generate_roadmap(decision, out) ==
    IF decision = None THEN Reply("error")
    ELSE IF decision.focus = <<>> THEN Reply("error")
    ELSE IF out = "json" THEN Reply("roadmap")
    ELSE Reply("fallback_roadmap")

\* explain_decision(user_state)
explain_decision(decision, context, out) ==
    IF decision = None THEN Reply("error")
    ELSE IF context = None THEN Raise("AttributeError")
    ELSE IF out = "json" THEN Reply("explanation")
    ELSE IF decision.focus = <<>> THEN Raise("IndexError")
    ELSE Reply("fallback_explanation")

\* _safe_tutor(user_state, question)
safe_tutor(decision, ev, out) ==
    IF ev = None \/ decision = None THEN Raise("AttributeError")
    ELSE IF out = "error" THEN Reply("error")
    ELSE Reply("tutor")

\* Orchestrator.handle_interaction(user_state, message, intent)
handle_interaction(intent, decision, context, out, reply) ==
    IF intent = "panic"
    THEN [handle_panic(decision, context, out) EXCEPT !.orchestrator = TRUE]
    ELSE IF intent = "override"
    THEN [raised |-> "none", kind |-> "override_request",
          changes |-> interpret_override(reply), orchestrator |-> TRUE]
    ELSE [Reply("error") EXCEPT !.orchestrator = TRUE]

\* the methods class Orchestrator defines
OrchestratorMethods == {"run_full_analysis", "handle_interaction"}

\* the reply of the intent classifier: an intent, or a failure (the call
\* raised, the content is no JSON, the object has no key "intent")
IntentReply(kind, intent) == [kind |-> kind, intent |-> intent]

\* the intent chat works with: the classified one, "casual" when the
\* classification failed
chat_intent(intent_reply) ==
    IF intent_reply.kind = "intent" THEN intent_reply.intent ELSE "casual"

\* chat(user_state, user_message): panic and override go to
\* orchestrator.handle_user_interaction, a name class Orchestrator does not
\* define, so the attribute lookup raises AttributeError
chat(intent_reply, decision, context, ev, out, reply) ==
    LET intent == chat_intent(intent_reply)
    IN  IF intent \in {"panic", "override"}
        THEN IF "handle_user_interaction" \in OrchestratorMethods
             THEN handle_interaction(intent, decision, context, out, reply)
             ELSE Raise("AttributeError")
        ELSE IF intent = "explain"
        THEN explain_decision(decision, context, out)
        ELSE IF intent = "roadmap" THEN generate_roadmap(decision, out)
        ELSE IF intent = "learn" THEN safe_tutor(decision, ev, out)
        ELSE Reply("casual")

\* the five records of the session
Session ==
    [basic |-> basic_profile,
     context |-> context_profile,
     evidence |-> evidence_profile,
     interest |-> interest_profile,
     decision |-> decision_state]

\* the classifier entry of a call that classifies no intent
NotClassified == IntentReply("none", "none")

\* the end of an agent call: the log holds this call (the intent
\* classifier's reply, the intent and the interpreter's reply it worked with, the session it got, what it returned,
\* the session it left), the session is what the call left
AgentCall(op, classifier, intent, reply, r, after) ==
    /\ raised' = r.raised
    /\ basic_profile' = after.basic
    /\ context_profile' = after.context
    /\ evidence_profile' = after.evidence
    /\ interest_profile' = after.interest
    /\ decision_state' = after.decision
    /\ calls' = <<[op |-> op,
                   classifier |-> classifier,
                   intent |-> intent,
                   reply |-> reply,
                   before |-> Session,
                   after |-> after,
                   raised |-> r.raised,
                   kind |-> r.kind,
                   changes |-> r.changes,
                   orchestrator |-> r.orchestrator]>>
    /\ UNCHANGED <<scores, cache>>

\* a plausible slip: the handler applies the forced paths of an override to
\* the stored decision
HandleInteraction_applies_override(intent, out, reply) ==
    \E r \in {handle_interaction(intent, decision_state, context_profile,
                                 out, reply)} :
        AgentCall("handle_interaction", NotClassified,
                  intent, reply, r,
                  IF /\ r.kind = "override_request"
                     /\ decision_state # None
                     /\ r.changes.force_include # <<>>
                  THEN [Session EXCEPT
                            !.decision.focus = r.changes.force_include]
                  ELSE Session)

\* orchestrator.handle_interaction(user_state, message, intent)
HandleInteraction(intent, out, reply) ==
    \E r \in {handle_interaction(intent, decision_state, context_profile,
                                 out, reply)} :
        AgentCall("handle_interaction", NotClassified,
                  intent, reply, r, Session)

\* advise_decision(user_state)
AdviseDecision(out) ==
    \E r \in {advise_decision(decision_state, context_profile,
                              evidence_profile, interest_profile, out)} :
        AgentCall("advise_decision", NotClassified,
                  "none", None, r, Session)

\* generate_roadmap(user_state)
GenerateRoadmap(out) ==
    \E r \in {generate_roadmap(decision_state, out)} :
        AgentCall("generate_roadmap", NotClassified,
                  "none", None, r, Session)

\* explain_decision(user_state), its reply
ExplainDecisionReply(out) ==
    \E r \in {explain_decision(decision_state, context_profile, out)} :
        AgentCall("explain_decision", NotClassified,
                  "none", None, r, Session)

\* interpret_override as an agent call: the payload reads
\* basic_profile.time_availability before the try block
override_request(basic, reply) ==
    IF basic = None THEN Raise("AttributeError")
    ELSE [raised |-> "none", kind |-> "change_request",
          changes |-> interpret_override(reply), orchestrator |-> FALSE]

\* interpret_override(user_state, user_message)
InterpretOverride(reply) ==
    \E r \in {override_request(basic_profile, reply)} :
        AgentCall("interpret_override", NotClassified,
                  "none", reply, r, Session)

\* chat(user_state, user_message)
Chat(intent_reply, out, reply) ==
    \E r \in {chat(intent_reply, decision_state, context_profile,
                   evidence_profile, out, reply)} :
        AgentCall("chat", intent_reply, chat_intent(intent_reply), reply, r,
                  Session)

\* replies of the intent classifier
IntentReplies ==
    {IntentReply("intent", i) :
        i \in {"panic", "override", "explain", "roadmap", "learn", "casual",
               "smalltalk"}}
    \cup {IntentReply(k, "none") : k \in {"error", "unparsable", "no_intent"}}

\* intents a caller may hand to handle_interaction
Intents == {"panic", "override", "explain", "unknown"}

\* replies of the override interpreter inside an interaction
InteractionOverrideReplies ==
    {OverrideObject(JsonValue("list", <<"Frontend Engineering">>, TRUE),
                    JsonValue("list", <<"Web Development">>, TRUE)),
     OverrideObject(Missing, JsonNull),
     OverrideFailure("error")}

\* the session of the override demo: a context and a decision attached by
\* the caller
OverrideDemoBasicProfile ==
    [college_tier |-> 3, year_of_study |-> 3, time_availability |-> 6]

OverrideDemoContext ==
    [strictness_level |-> "MEDIUM", urgency_level |-> "MEDIUM",
     max_focus_skills |-> 1, proof_expectation |-> "BASIC"]

OverrideDemoDecision ==
    [focus |-> <<"Backend Engineering">>,
     park |-> <<"Frontend Engineering">>,
     drop |-> <<"Data Science / ML">>,
     reasons |-> EmptyDict]

AgentInit ==
    /\ basic_profile = OverrideDemoBasicProfile
    /\ interest_profile = None
    /\ context_profile \in {None, OverrideDemoContext}
    /\ evidence_profile = None
    /\ decision_state \in {None, OverrideDemoDecision}
    /\ scores = None
    /\ raised = "none"
    /\ MarketInit

AgentNext ==
    \/ \E intent \in Intents, out \in TextOutcomes,
          reply \in InteractionOverrideReplies :
           HandleInteraction(intent, out, reply)
    \/ \E out \in TextOutcomes : AdviseDecision(out)
    \/ \E out \in TextOutcomes : GenerateRoadmap(out)
    \/ \E out \in TextOutcomes : ExplainDecisionReply(out)
    \/ \E reply \in InteractionOverrideReplies : InterpretOverride(reply)
    \/ \E intent_reply \in IntentReplies, out \in TextOutcomes,
          reply \in InteractionOverrideReplies :
           Chat(intent_reply, out, reply)
    \/ BuildContext
    \/ \E bias \in PipelineSignals : AnalyzeInterests(bias)
    \/ AttachEvidence(EmptyDict, EmptyDict)
    \/ MakeDecision

AgentSpec == AgentInit /\ [][AgentNext]_vars

\* Override specification: interpret_override on every modelled reply
OverrideNext ==
    \/ \E reply \in OverrideReplies : InterpretOverride(reply)
    \/ BuildContext

OverrideSpec == AgentInit /\ [][OverrideNext]_vars

-----------------------------------------------------------------------------
\* Session specification

BasicProfiles ==
    {[college_tier |-> t, year_of_study |-> y, time_availability |-> h] :
        t \in 1..3, y \in 1..5, h \in HourVals}

Init ==
    /\ basic_profile \in BasicProfiles
    /\ interest_profile = None
    /\ context_profile = None
    /\ evidence_profile = None
    /\ decision_state = None
    /\ scores = None
    /\ raised = "none"
    /\ MarketInit

Next ==
    \/ BuildContext
    \/ \E bias \in InterestSignals : AnalyzeInterests(bias)
    \/ \E gh \in GithubInputs, lc \in LeetcodeInputs : AttachEvidence(gh, lc)
    \/ MakeDecision
    \/ MakeDecisionWithMarket

Spec == Init /\ [][Next]_vars

-----------------------------------------------------------------------------
\* Properties of the Decision Engine

\* number of times path p occurs in a list
CountIn(seq, p) == Cardinality({i \in 1..Len(seq) : seq[i] = p})

InList(seq, p) == \E i \in 1..Len(seq) : seq[i] = p

AllBelowFloor(sc) == \A p \in PathSet : sc[p] < DropFloor

\* the highest-scoring path, first-declared on ties
TopPath(sc) ==
    CAREER_PATHS[CHOOSE i \in 1..Len(CAREER_PATHS) :
        /\ \A j \in 1..Len(CAREER_PATHS) :
               sc[CAREER_PATHS[j]] <= sc[CAREER_PATHS[i]]
        /\ \A j \in 1..(i - 1) :
               sc[CAREER_PATHS[j]] < sc[CAREER_PATHS[i]]]

\* C1: after every make_decision run each of the four career paths appears in
\* exactly one of focus, park, drop, exactly once (the code breaks this in the
\* fallback run, where the forced focus path stays in drop).
C1_PartitionExactlyOnce ==
    decision_state # None =>
        \A p \in PathSet :
            CountIn(decision_state.focus, p) + CountIn(decision_state.park, p)
                + CountIn(decision_state.drop, p) = 1

\* C2: when all four paths score below 0.25 the run returns focus = the single
\* highest-scoring path (first-declared on ties) with the fallback reason,
\* park empty, and drop = exactly the other three paths (the code leaves the
\* forced focus path in drop as well).
C2_FallbackPartition ==
    (decision_state # None /\ AllBelowFloor(scores)) =>
        LET top == TopPath(scores)
            d == decision_state
        IN  /\ d.focus = <<top>>
            /\ d.reasons[top] = <<"Fallback choice due to weak overall signals">>
            /\ d.park = <<>>
            /\ Len(d.drop) = 3
            /\ \A p \in PathSet : InList(d.drop, p) <=> p # top

\* C3: the focus list of every decision has at least one element, also when
\* every score is below the drop floor.
C3_FocusNonEmpty ==
    decision_state # None => Len(decision_state.focus) >= 1

\* C3 witness: a decision made with all four paths below the floor (all four
\* were dropped by the loop) that still has a focus.
C3_Witness ==
    /\ decision_state # None
    /\ Len(decision_state.drop) = 4
    /\ Len(decision_state.focus) = 1

\* C4: with the ContextProfile built by build_context, the focus list is never
\* longer than max_focus_skills, which is 1 or 2.
C4_FocusCapacity ==
    decision_state # None =>
        /\ context_profile # None
        /\ context_profile.max_focus_skills \in {1, 2}
        /\ Len(decision_state.focus) <= context_profile.max_focus_skills

\* C4 witness: a decision that filled a capacity of 2 and parked a further path.
C4_Witness ==
    /\ decision_state # None
    /\ context_profile # None
    /\ context_profile.max_focus_skills = 2
    /\ Len(decision_state.focus) = 2
    /\ Len(decision_state.park) >= 1

\* C5: in every run a path scoring below 0.25 is in drop, never in park, and in
\* focus only as the forced fallback singleton; a path scoring at least 0.25
\* is never in drop.
C5_DropFloor ==
    decision_state # None =>
        LET d == decision_state
        IN  \A p \in PathSet :
                IF scores[p] < DropFloor
                THEN /\ InList(d.drop, p)
                     /\ ~InList(d.park, p)
                     /\ InList(d.focus, p) =>
                            (AllBelowFloor(scores) /\ d.focus = <<p>>)
                ELSE ~InList(d.drop, p)

\* C5 witness: a decision with a dropped path, a parked path and a focus that
\* was chosen by score rather than by the fallback.
C5_Witness ==
    /\ decision_state # None
    /\ Len(decision_state.drop) >= 1
    /\ Len(decision_state.park) >= 1
    /\ \E p \in PathSet :
           /\ InList(decision_state.focus, p)
           /\ decision_state.reasons[p][1] = "Best alignment score"

-----------------------------------------------------------------------------
\* Properties of the Market Model

\* the logged calls of the public get_market_multiplier
GetCalls == {i \in 1..Len(calls) : calls[i].op = "get_market_multiplier"}

\* the name is spelled as a key of the static table
InTable(skill) == skill \in DOMAIN MarketSkills

\* the table's names, case and surrounding whitespace aside
NormalizedTableNames == {normalize_skill(k) : k \in DOMAIN MarketSkills}

\* the name matches no table entry, case and surrounding whitespace aside
UnknownSkill(skill) == normalize_skill(skill) \notin NormalizedTableNames

\* the two names differ at most in letter case or surrounding whitespace
SameSkill(a, b) == normalize_skill(a) = normalize_skill(b)

\* the classifier answered with an object whose trend is missing or is none of
\* the four labels
UnrecognisedTrend(resp) ==
    \/ resp.kind = "no_trend"
    \/ /\ resp.kind = "trend"
       /\ Lower(resp.trend) \notin {RISING, STABLE, DECLINING, NICHE}

\* C6: get_market_multiplier on a name present in the static table returns the
\* table-derived multiplier, never invokes the classifier and never reads or
\* writes the cache (the code looks the lower-cased name up in a table whose
\* keys are capitalised, so the lookup misses).
C6_KnownSkillDeterministic ==
    \A i \in GetCalls :
        InTable(calls[i].skill) =>
            /\ calls[i].outcome = "known"
            /\ calls[i].value = known_skill_multiplier(MarketSkills[calls[i].skill])
            /\ calls[i].response = NoResponse
            /\ ~calls[i].cache_read
            /\ ~calls[i].cache_written

\* C7: every multiplier returned, for a known or an unknown skill and for every
\* outcome of the classifier, lies in [0.7, 1.3].
C7_MultiplierBounds ==
    \A i \in 1..Len(calls) : 70 <= calls[i].value /\ calls[i].value <= 130

\* C7 witness: a known-skill multiplier that the upper clamp cut to 1.3,
\* followed by a lookup whose classification failed.
C7_Witness ==
    /\ Len(calls) = 2
    /\ calls[1].op = "known_skill_multiplier"
    /\ calls[1].value = 130
    /\ calls[2].op = "get_market_multiplier"
    /\ calls[2].outcome = "failed"

\* C8 as stated: two calls with the same unknown skill name (case/whitespace
\* variants included) invoke the classifier at most once in total and the
\* second returns the multiplier of the first.
C8_AtMostOneClassification ==
    \A i \in GetCalls : \A j \in GetCalls :
        (i < j /\ UnknownSkill(calls[i].skill)
               /\ SameSkill(calls[i].skill, calls[j].skill)) =>
            /\ ~(Invoked(calls[i].outcome) /\ Invoked(calls[j].outcome))
            /\ calls[j].value = calls[i].value

\* C8 amended: when the first of two calls with the same unknown skill name
\* (case/whitespace variants included) did not end in the failure fallback,
\* the second call is answered from the cache without invoking the classifier
\* and returns the multiplier of the first.
C8_CacheIdempotent ==
    \A i \in GetCalls : \A j \in GetCalls :
        (i < j /\ UnknownSkill(calls[i].skill)
               /\ SameSkill(calls[i].skill, calls[j].skill)
               /\ calls[i].outcome # "failed") =>
            /\ calls[j].outcome = "hit"
            /\ calls[j].value = calls[i].value

\* C8 witness: "HTMX" classified by the first call, " htmx " answered from the
\* cache by the second.
C8_Witness ==
    /\ Len(calls) = 2
    /\ calls[1].skill = HTMX
    /\ calls[1].outcome = "classified"
    /\ calls[2].skill = HTMX_VARIANT
    /\ calls[2].outcome = "hit"
    /\ calls[2].value = calls[1].value

\* C9: a call whose classification fails returns exactly 1.0 and leaves the
\* cache as it was, so the skill is still uncached and the next call for it
\* invokes the classifier again.
C9_FailureNotCached ==
    \A i \in GetCalls :
        calls[i].outcome = "failed" =>
            /\ calls[i].value = 100
            /\ ~calls[i].cache_written
            /\ i = Len(calls) =>
                   normalize_skill(calls[i].skill) \notin DOMAIN cache
            /\ (i < Len(calls) /\ (i + 1) \in GetCalls
                    /\ SameSkill(calls[i].skill, calls[i + 1].skill)) =>
                   Invoked(calls[i + 1].outcome)

\* C9 witness: an unparsable answer for "Rust Embedded", then a second call for
\* it that reaches the classifier again.
C9_Witness ==
    /\ Len(calls) = 2
    /\ calls[1].skill = RUST_EMBEDDED
    /\ calls[1].response.kind = "unparsable"
    /\ calls[1].outcome = "failed"
    /\ calls[2].skill = RUST_EMBEDDED
    /\ Invoked(calls[2].outcome)

\* C10: a well-formed answer whose trend is missing or none of the four labels
\* is treated as a failure: the call returns 1.0 and adds no cache entry (the
\* code caches the neutral 1.0 for it).
C10_UnrecognisedTrendIsFailure ==
    \A i \in GetCalls :
        UnrecognisedTrend(calls[i].response) =>
            /\ calls[i].value = 100
            /\ ~calls[i].cache_written
            /\ i = Len(calls) =>
                   normalize_skill(calls[i].skill) \notin DOMAIN cache

-----------------------------------------------------------------------------
\* Properties of the interactions

\* the normalized names for which the classifier was invoked during a call
InvokedSkills(rec) ==
    IF rec.op = "get_market_multiplier"
    THEN IF Invoked(rec.outcome) THEN {normalize_skill(rec.skill)} ELSE {}
    ELSE rec.invoked

\* the normalized names a call classified with a recognised trend
ClassifiedSkills(rec) ==
    IF rec.op = "get_market_multiplier"
    THEN IF rec.outcome = "classified" /\ Recognised(rec.response)
         THEN {normalize_skill(rec.skill)} ELSE {}
    ELSE rec.classified

\* C11: once an unknown skill has been classified successfully, no later
\* request of the process for it (direct call, panic handling, decision
\* explanation) invokes the classifier again (the cache belongs to one
\* MarketPulse object, and every interaction constructs its own).
C11_ClassifiedOncePerProcess ==
    \A i \in 1..Len(calls) : \A j \in 1..Len(calls) :
        i < j =>
            \A n \in ClassifiedSkills(calls[i]) :
                n \notin NormalizedTableNames =>
                    n \notin InvokedSkills(calls[j])

-----------------------------------------------------------------------------
\* Properties of the market-aware decision

\* x / d rounded to the nearest integer, ties to even (x >= 0, d > 0)
RoundHalfEven(x, d) ==
    LET q == x \div d
        r == x % d
    IN  IF 2 * r < d THEN q
        ELSE IF 2 * r > d THEN q + 1
        ELSE IF q % 2 = 0 THEN q ELSE q + 1

\* the Market Model's multiplier for a skill as the specification describes
\* it, in hundredths: table-derived for a table skill, the cached
\* classification for another, neutral when there is none
MarketModelMultiplier(skill) ==
    IF InTable(skill) THEN known_skill_multiplier(MarketSkills[skill])
    ELSE Get(cache, normalize_skill(skill), 100)

\* the mean multiplier over a path's representative skills (the source names
\* one representative skill per path, in focus_skill_map), in hundredths
PathMultiplier(p) == MarketModelMultiplier(focus_skill_map[p])

\* the post-penalty score times the path's multiplier, in thousandths
MarketAdjustedScore(p, f, hours) ==
    RoundHalfEven(penalised_score(p, f, hours) * PathMultiplier(p), 10000)

\* C12: make_decision accepts the market model as its second argument, and the
\* final score of every path it ranks and partitions is the post-penalty base
\* score times the mean market multiplier of the path's representative skills
\* (the function in the source takes the session only and never consults the
\* market).
C12_MarketAdjustedScores ==
    [][/\ MakeDecisionWithMarket => raised' = "none"
       /\ (MakeDecision /\ raised' = "none") =>
              LET f == extract_features(evidence_profile, interest_profile)
              IN  \A p \in PathSet :
                      scores'[p] =
                          MarketAdjustedScore(p, f,
                                              basic_profile.time_availability)
      ]_vars

-----------------------------------------------------------------------------
\* Properties of the Context Profiler

C15_ContextIdempotent ==
    [][(context_profile # None /\ BuildContextCall) =>
           /\ context_profile' = context_profile
           /\ UNCHANGED <<basic_profile, interest_profile, evidence_profile,
                          decision_state>>
      ]_vars

\* C15 witness: two logged build_context calls with the basic profile replaced
\* in between by one whose rules give another context; the second call left
\* the context of the first.
C15_Witness ==
    /\ Len(calls) = 2
    /\ calls[1].op = "build_context"
    /\ calls[2].op = "build_context"
    /\ calls[1].before = None
    /\ calls[2].basic # calls[1].basic
    /\ ComputeContext(calls[2].basic) # calls[1].after
    /\ calls[2].after = calls[1].after
    /\ context_profile = calls[1].after

\* C16: every build_evidence call, whatever combination of present, absent
\* or invalid GitHub and LeetCode records it is given, completes without
\* raising and attaches an EvidenceProfile; for each absent or invalid source
\* the attached profile carries that source's no-evidence flag and an empty
\* stats record.
C16_EvidenceNeverRaises ==
    \A k \in 1..Len(calls) :
        calls[k].op = "build_evidence" =>
            /\ calls[k].raised = "none"
            /\ calls[k].attached # None
            /\ ~calls[k].gh_valid =>
                   /\ InSeq(calls[k].attached.flags, "no_project_evidence")
                   /\ calls[k].attached.github_stats = EmptyDict
            /\ ~calls[k].lc_valid =>
                   /\ InSeq(calls[k].attached.flags, "no_dsa_evidence")
                   /\ calls[k].attached.leetcode_stats = EmptyDict

\* C17: build_evidence given no GitHub record and a valid LeetCode record
\* with 5 problems solved computes flags that include no_project_evidence
\* and weak_dsa_foundation and the encoded feature has_projects = 0; and
\* has_projects is 0 in every call whose GitHub record is absent or invalid.
C17_HasProjectsZero ==
    \A k \in 1..Len(calls) :
        calls[k].op = "build_evidence" =>
            /\ (/\ calls[k].github_stats = None
                /\ calls[k].leetcode_stats =
                       [valid |-> TRUE, total_solved |-> 5]) =>
                   /\ InSeq(calls[k].flags, "no_project_evidence")
                   /\ InSeq(calls[k].flags, "weak_dsa_foundation")
                   /\ calls[k].encoded_features["has_projects"] = 0
            /\ ~calls[k].gh_valid =>
                   calls[k].encoded_features["has_projects"] = 0

\* the arguments of a logged run are in range
ValidBasicData(rec) ==
    LET args == BasicArgs(rec.basic_data)
    IN  /\ args.college_tier \in 1..3
        /\ args.year_of_study \in 1..5
        /\ args.time_availability >= 0

\* C18: every run_full_analysis with a basic profile in range completes and
\* returns a complete result (status success, a context, evidence flags and
\* a decision with a non-empty focus), also when both scrapers return None
\* and the interest extraction falls back; its first four stages are context,
\* evidence, interests, decision, and the decision is there only with the
\* other three profiles attached.
C18_FullAnalysisCompletes ==
    \A k \in 1..Len(calls) :
        (calls[k].op = "run_full_analysis" /\ ValidBasicData(calls[k])) =>
            /\ calls[k].raised = "none"
            /\ calls[k].output # None
            /\ calls[k].output.status = "success"
            /\ calls[k].output.decisions.focus # <<>>
            /\ Len(calls[k].stages) >= 4
            /\ SubSeq(calls[k].stages, 1, 4) =
                   <<"context", "evidence", "interests", "decision">>
            /\ calls[k].context # None
            /\ calls[k].evidence # None
            /\ calls[k].interest # None
            /\ calls[k].decision # None

\* C19: constructing a BasicProfile with college_tier outside 1..3,
\* year_of_study outside 1..5 or a negative time_availability raises
\* ValueError and gives no profile (no value is clamped); a
\* run_full_analysis with such basic_data raises the ValueError, enters no
\* stage and attaches nothing.
C19_InvalidProfileFailsFast ==
    \A k \in 1..Len(calls) :
        /\ (/\ calls[k].op = "BasicProfile"
            /\ \/ calls[k].college_tier \notin 1..3
               \/ calls[k].year_of_study \notin 1..5
               \/ calls[k].time_availability < 0) =>
               /\ calls[k].raised \in
                      {"ValueError: Invalid college_tier",
                       "ValueError: Invalid year_of_study",
                       "ValueError: Time availability cannot be negative"}
               /\ calls[k].profile = None
               /\ raised = calls[k].raised
        /\ (calls[k].op = "run_full_analysis" /\ ~ValidBasicData(calls[k])) =>
               /\ calls[k].raised \in
                      {"ValueError: Invalid college_tier",
                       "ValueError: Invalid year_of_study",
                       "ValueError: Time availability cannot be negative"}
               /\ calls[k].stages = <<>>
               /\ calls[k].basic = None
               /\ calls[k].context = None
               /\ calls[k].evidence = None
               /\ calls[k].interest = None
               /\ calls[k].decision = None
               /\ calls[k].output = None

\* C19 witness: a run_full_analysis whose basic_data has only the year out of
\* range ended with the ValueError of the year before any stage.
C19_Witness ==
    /\ Len(calls) = 1
    /\ calls[1].op = "run_full_analysis"
    /\ calls[1].basic_data = [year |-> 6]
    /\ calls[1].raised = "ValueError: Invalid year_of_study"
    /\ calls[1].stages = <<>>
    /\ raised = "ValueError: Invalid year_of_study"

\* C20: analyze_interests called on a session that has an InterestProfile
\* leaves that profile as it is, changes no other part of the session and
\* does not call the extraction.
C20_InterestIdempotent ==
    [][\A bias \in InterestSignals :
           (interest_profile # None /\ AnalyzeInterestsCall(bias)) =>
               /\ interest_profile' = interest_profile
               /\ UNCHANGED <<basic_profile, context_profile,
                              evidence_profile, decision_state>>
               /\ ~calls'[Len(calls')].extracted
      ]_vars

\* C20 witness: a first call that extracted and attached a profile, then a
\* second call whose extraction would have given another profile; it did not
\* extract and the session has the profile of the first call.
C20_Witness ==
    /\ Len(calls) = 2
    /\ calls[1].op = "analyze_interests"
    /\ calls[2].op = "analyze_interests"
    /\ calls[1].before = None
    /\ calls[1].extracted
    /\ ComputeInterest(calls[2].bias) # calls[1].after
    /\ ~calls[2].extracted
    /\ calls[2].after = calls[1].after
    /\ interest_profile = calls[1].after

-----------------------------------------------------------------------------
\* Properties of the decision precondition

\* C21: every make_decision call on a session with no ContextProfile ends
\* with an exception, not with a decision: it produces no DecisionState and
\* leaves the decision_state the session had.
C21_NoContextNoDecision ==
    \A k \in 1..Len(calls) :
        (calls[k].op = "make_decision" /\ calls[k].context = None) =>
            /\ calls[k].raised = "AttributeError"
            /\ calls[k].after = calls[k].before

\* C21 witness: make_decision was called on a session with evidence,
\* interests and a decision attached by the caller but no context; it raised
\* and the caller's decision is still there.
C21_Witness ==
    /\ Len(calls) >= 1
    /\ calls[Len(calls)].op = "make_decision"
    /\ calls[Len(calls)].context = None
    /\ calls[Len(calls)].has_evidence
    /\ calls[Len(calls)].has_interest
    /\ calls[Len(calls)].before = RoadmapDemoDecision
    /\ calls[Len(calls)].raised = "AttributeError"
    /\ decision_state = RoadmapDemoDecision

-----------------------------------------------------------------------------
\* Properties of the scrapers

\* the lookup of a logged scraper call succeeded: a user name was given and
\* the service answered the profile request with status 200 and JSON
LookupSucceeded(rec) ==
    /\ rec.username # ""
    /\ rec.lookup.kind = "response"
    /\ rec.lookup.status = 200
    /\ rec.lookup.json = "dict"

\* C22: get_github_stats and get_leetcode_stats return without raising for
\* every outcome of the lookup (success, not found, another non-success
\* status, timeout, transport error), and every lookup that did not succeed
\* yields None, so a record marked valid comes only from a lookup that
\* succeeded.
C22_ScrapersDegradeToNone ==
    \A k \in 1..Len(calls) :
        calls[k].op \in {"get_github_stats", "get_leetcode_stats"} =>
            /\ calls[k].raised = "none"
            /\ ~LookupSucceeded(calls[k]) => calls[k].result = None

-----------------------------------------------------------------------------
\* Properties of the conversational agents

\* the operations that only read the session
ReadOnlyOps ==
    {"handle_interaction", "advise_decision", "generate_roadmap",
     "explain_decision", "interpret_override"}

\* C23: every handle_interaction (panic, override, unknown intent),
\* advise_decision, explain_decision, generate_roadmap and
\* interpret_override call leaves the basic, context, evidence, interest and
\* decision records of the session exactly as it got them, whatever the
\* remote text-generation call did.
C23_AgentsReadOnly ==
    \A k \in 1..Len(calls) :
        calls[k].op \in ReadOnlyOps =>
            calls[k].after = calls[k].before

\* C23 witness: an override interaction on a session with a decision
\* returned a request that forces a path other than the focused one, and the
\* decision is the one the session had.
C23_Witness ==
    /\ Len(calls) = 1
    /\ calls[1].op = "handle_interaction"
    /\ calls[1].intent = "override"
    /\ calls[1].kind = "override_request"
    /\ calls[1].changes.force_include = <<"Frontend Engineering">>
    /\ calls[1].before.decision # None
    /\ calls[1].before.decision.focus # <<"Frontend Engineering">>
    /\ decision_state = calls[1].before.decision

-----------------------------------------------------------------------------
\* Properties of the ranking

\* the place of a path in CAREER_PATHS
Declared(path) == CHOOSE i \in 1..Len(CAREER_PATHS) : CAREER_PATHS[i] = path

\* path p is visited before path q: a higher score, or the same score and an
\* earlier declaration
VisitedBefore(p, q) ==
    \/ scores[p] > scores[q]
    \/ scores[p] = scores[q] /\ Declared(p) < Declared(q)

\* the entries of a list are in visiting order
InVisitingOrder(list) ==
    \A i, j \in 1..Len(list) : i < j => VisitedBefore(list[i], list[j])

\* the path visited first
FirstVisited == CHOOSE p \in PathSet : \A q \in PathSet \ {p} : VisitedBefore(p, q)

\* two paths share the top score
TiedTop ==
    \E p, q \in PathSet :
        /\ p # q
        /\ scores[p] = scores[q]
        /\ \A r \in PathSet : scores[r] <= scores[p]

\* C24: make_decision visits the paths by descending score and, for equal
\* scores, in the order of CAREER_PATHS: park and drop list their paths in
\* that order, focus does so too and holds the paths visited first among
\* those at or above the floor; with a capacity of 1 and tied top paths at
\* or above the floor the earlier-declared one is the focus and the others
\* tied with it are parked; with every path below the floor the focus is the
\* earliest-declared path of the top score.
C24_StableRanking ==
    (decision_state # None /\ scores # None) =>
        /\ InVisitingOrder(decision_state.park)
        /\ InVisitingOrder(decision_state.drop)
        /\ InVisitingOrder(decision_state.focus)
        /\ \A i \in 1..Len(decision_state.focus),
              j \in 1..Len(decision_state.park) :
               VisitedBefore(decision_state.focus[i], decision_state.park[j])
        /\ (/\ context_profile.max_focus_skills = 1
            /\ TiedTop
            /\ scores[FirstVisited] >= DropFloor) =>
               /\ decision_state.focus = <<FirstVisited>>
               /\ \A q \in PathSet \ {FirstVisited} :
                      scores[q] = scores[FirstVisited] =>
                          InSeq(decision_state.park, q)
        /\ (\A p \in PathSet : scores[p] < DropFloor) =>
               decision_state.focus = <<FirstVisited>>

\* C24 witness: a decision under capacity 1 whose two top paths are tied at
\* or above the floor; the earlier-declared one is the focus, the other is
\* parked.
C24_Witness ==
    /\ decision_state # None
    /\ scores # None
    /\ context_profile.max_focus_skills = 1
    /\ \E p, q \in PathSet :
           /\ Declared(p) < Declared(q)
           /\ scores[p] = scores[q]
           /\ scores[p] >= DropFloor
           /\ \A r \in PathSet : scores[r] <= scores[p]
           /\ decision_state.focus = <<p>>
           /\ InSeq(decision_state.park, q)

\* C25: after every make_decision run the reasons mapping has exactly the
\* four career paths as keys, and the reason of each path records the
\* numeric score of that path besides the branch that placed it, the path
\* forced into focus by the fallback included (the code overwrites that
\* path's reason with a fixed text that carries no score).
C25_ReasonsRecordScore ==
    (decision_state # None /\ scores # None) =>
        /\ DOMAIN decision_state.reasons = PathSet
        /\ \A p \in PathSet :
               /\ Len(decision_state.reasons[p]) = 2
               /\ decision_state.reasons[p][2] = scores[p]

-----------------------------------------------------------------------------
\* Two or more sessions inside _classify_unknown_skill of one shared
\* MarketPulse. Each entry of calls is a call in flight: its skill, its
\* position in the method, the number of classifier invocations it made, the
\* classifier's response and the multiplier it holds or returned. The steps
\* of different calls interleave freely; a step is one access to the shared
\* _cache or the remote call with the local computation that follows it.

\* a call that has just entered _classify_unknown_skill(skill)
NewClassifyCall(skill) ==
    [op |-> "classify_unknown_skill",
     skill |-> skill,
     pc |-> "lookup",
     invoked |-> 0,
     response |-> NoResponse,
     value |-> 0,
     outcome |-> "running"]

\* a session calls _classify_unknown_skill(skill) on the shared MarketPulse
ClassifyRequest(skill) ==
    /\ Len(calls) < MaxCalls
    /\ calls' = Append(calls, NewClassifyCall(skill))
    /\ UNCHANGED <<cache, sessionVars>>

\* "if normalized in self._cache: return self._cache[normalized]"
CacheLookup(i) ==
    /\ calls[i].pc = "lookup"
    /\ LET normalized == normalize_skill(calls[i].skill)
       IN  calls' = [calls EXCEPT ![i] =
               IF normalized \in DOMAIN cache
               THEN [@ EXCEPT !.pc = "returned",
                              !.value = cache[normalized],
                              !.outcome = "hit"]
               ELSE [@ EXCEPT !.pc = "classifier"]]
    /\ UNCHANGED <<cache, sessionVars>>

\* the remote call answers resp; the reply is parsed and mapped to a
\* multiplier, or the except clause returns the neutral 1.0
ClassifierReply(i, resp) ==
    /\ calls[i].pc = "classifier"
    /\ calls' = [calls EXCEPT ![i] =
           IF Raises(resp)
           THEN [@ EXCEPT !.pc = "returned",
                          !.invoked = @ + 1,
                          !.response = resp,
                          !.value = 100,
                          !.outcome = "failed"]
           ELSE LET trend == IF resp.kind = "no_trend" THEN STABLE
                             ELSE Lower(resp.trend)
                IN  [@ EXCEPT !.pc = "store",
                              !.invoked = @ + 1,
                              !.response = resp,
                              !.value = Get(TREND_MULTIPLIERS, trend, 10) * 10]]
    /\ UNCHANGED <<cache, sessionVars>>

\* a plausible slip: the entry stored under the name as the caller gave it
CacheStore_rawkey(i) ==
    /\ calls[i].pc = "store"
    /\ cache' = (calls[i].skill :> calls[i].value) @@ cache
    /\ calls' = [calls EXCEPT ![i] =
           [@ EXCEPT !.pc = "returned", !.outcome = "classified"]]
    /\ UNCHANGED sessionVars

\* "self._cache[normalized] = multiplier; return multiplier"
CacheStore(i) ==
    /\ calls[i].pc = "store"
    /\ cache' = (normalize_skill(calls[i].skill) :> calls[i].value) @@ cache
    /\ calls' = [calls EXCEPT ![i] =
           [@ EXCEPT !.pc = "returned", !.outcome = "classified"]]
    /\ UNCHANGED sessionVars

\* spellings of one unknown skill
SharedSkillInputs == {HTMX, HTMX_VARIANT}

ConcurrentNext ==
    \/ \E skill \in SharedSkillInputs : ClassifyRequest(skill)
    \/ \E i \in 1..Len(calls) : CacheLookup(i)
    \/ \E i \in 1..Len(calls), resp \in Responses : ClassifierReply(i, resp)
    \/ \E i \in 1..Len(calls) : CacheStore(i)

ConcurrentSpec == MarketSpecInit /\ [][ConcurrentNext]_vars

\* every call has returned and there were at least two
AllReturned ==
    /\ Len(calls) >= 2
    /\ \A i \in 1..Len(calls) : calls[i].pc = "returned"

\* what holds of the calls and the cache in every interleaving
ConcurrentCallsSound ==
    /\ \A i \in 1..Len(calls) :
           /\ calls[i].invoked <= 1
           /\ calls[i].pc = "returned" =>
                  (calls[i].value >= MIN_MULTIPLIER \div 10
                       /\ calls[i].value <= MAX_MULTIPLIER \div 10)
    /\ \A i, j \in 1..Len(calls) :
           (/\ calls[i].outcome = "classified"
            /\ calls[j].outcome = "classified"
            /\ calls[i].response = calls[j].response) =>
               calls[i].value = calls[j].value

\* the cache holds exactly one entry, under the normalized name, and its
\* value was returned to one of the calls
OneSharedEntry ==
    /\ DOMAIN cache = {normalize_skill(HTMX)}
    /\ \E i \in 1..Len(calls) : calls[i].value = cache[normalize_skill(HTMX)]

\* C26 (as amended): under every interleaving of sessions that request the
\* multiplier of the same unknown skill on a shared MarketPulse, each call
\* invokes the classifier at most once, each receives a multiplier in
\* [0.7, 1.3], calls whose classifications return the same label receive the
\* same multiplier, and once all have returned the cache holds exactly one
\* entry, under the normalized name, with a value returned to one of them,
\* provided at least one classification succeeded; when every classification
\* failed the cache holds no entry.
C26_ConcurrentClassification ==
    /\ ConcurrentCallsSound
    /\ AllReturned =>
           IF \E i \in 1..Len(calls) : calls[i].outcome = "classified"
           THEN OneSharedEntry
           ELSE cache = EmptyDict

\* C26 as stated: the cache holds exactly one entry after every interleaving,
\* whatever the classifications produced.
C26_AlwaysOneEntry ==
    /\ ConcurrentCallsSound
    /\ AllReturned => OneSharedEntry

\* C26 witness: two calls both missed the cache, both invoked the classifier
\* and got different labels; both returned and the cache holds the one entry
\* written last.
C26_Witness ==
    /\ AllReturned
    /\ calls[1].outcome = "classified"
    /\ calls[2].outcome = "classified"
    /\ calls[1].value # calls[2].value
    /\ OneSharedEntry

-----------------------------------------------------------------------------
\* Properties of the flag sequence

\* the flags the GitHub part of build_evidence appends
GithubFlagNames ==
    {"no_project_evidence", "early_stage_projects",
     "projects_show_real_world_signal", "portfolio_needs_polish",
     "stagnant_project_growth"}

\* the flags the LeetCode part of build_evidence appends
LeetcodeFlagNames ==
    {"no_dsa_evidence", "weak_dsa_foundation",
     "dsa_sufficient_for_interviews", "dsa_saturation_reached",
     "low_difficulty_bias"}

\* the flags the cross-signal part of build_evidence appends
CrossFlagNames ==
    {"shift_focus_to_projects", "strengthen_core_dsa",
     "execution_ready_profile"}

\* the part of build_evidence a flag comes from: 1, 2 or 3
FlagPart(flag) ==
    IF flag \in GithubFlagNames THEN 1
    ELSE IF flag \in LeetcodeFlagNames THEN 2
    ELSE 3

\* C27: in the flag sequence every build_evidence call builds, the GitHub
\* flags come before the LeetCode flags, which come before the cross-signal
\* flags; shift_focus_to_projects is present iff dsa_saturation_reached and
\* portfolio_needs_polish are, strengthen_core_dsa iff
\* projects_show_real_world_signal and weak_dsa_foundation are,
\* execution_ready_profile iff projects_show_real_world_signal and
\* dsa_sufficient_for_interviews are; and no flag appears twice.
C27_FlagOrderAndCrossSignals ==
    \A k \in 1..Len(calls) :
        calls[k].op = "build_evidence" =>
            LET flags == calls[k].flags
            IN  /\ \A i, j \in 1..Len(flags) :
                       i < j => /\ flags[i] # flags[j]
                                /\ FlagPart(flags[i]) <= FlagPart(flags[j])
                /\ \A i \in 1..Len(flags) :
                       flags[i] \in GithubFlagNames \cup LeetcodeFlagNames
                                        \cup CrossFlagNames
                /\ InSeq(flags, "shift_focus_to_projects") <=>
                       (InSeq(flags, "dsa_saturation_reached")
                            /\ InSeq(flags, "portfolio_needs_polish"))
                /\ InSeq(flags, "strengthen_core_dsa") <=>
                       (InSeq(flags, "projects_show_real_world_signal")
                            /\ InSeq(flags, "weak_dsa_foundation"))
                /\ InSeq(flags, "execution_ready_profile") <=>
                       (InSeq(flags, "projects_show_real_world_signal")
                            /\ InSeq(flags, "dsa_sufficient_for_interviews"))

\* C27 witness: one build_evidence call whose sequence ends with
\* shift_focus_to_projects and execution_ready_profile after GitHub and
\* LeetCode flags, and one whose sequence holds strengthen_core_dsa and one
\* prerequisite of execution_ready_profile without that flag.
C27_Witness ==
    /\ Len(calls) = 2
    /\ calls[1].op = "build_evidence"
    /\ calls[1].flags =
           <<"projects_show_real_world_signal", "portfolio_needs_polish",
             "dsa_sufficient_for_interviews", "dsa_saturation_reached",
             "shift_focus_to_projects", "execution_ready_profile">>
    /\ calls[2].op = "build_evidence"
    /\ InSeq(calls[2].flags, "strengthen_core_dsa")
    /\ InSeq(calls[2].flags, "projects_show_real_world_signal")
    /\ ~InSeq(calls[2].flags, "execution_ready_profile")

\* the feature names TAG_ENCODINGS registers
FeatureNames == {TAG_ENCODINGS[i][2] : i \in 1..Len(TAG_ENCODINGS)}

\* the tags TAG_ENCODINGS registers
RegisteredTags == {TAG_ENCODINGS[i][1] : i \in 1..Len(TAG_ENCODINGS)}

\* C28: the vector _encode_flags returns has the same keys for every flag
\* list, one per registered tag; every value is 0 or 1; a feature is 1
\* exactly when its registered tag is in the list; a tag that is not
\* registered adds no key and raises nothing.
C28_FixedFeatureVector ==
    \A k \in 1..Len(calls) :
        calls[k].op = "encode_flags" =>
            /\ calls[k].raised = "none"
            /\ DOMAIN calls[k].encoded_features = FeatureNames
            /\ Cardinality(FeatureNames) = Len(TAG_ENCODINGS)
            /\ \A i \in 1..Len(TAG_ENCODINGS) :
                   LET value == calls[k].encoded_features[TAG_ENCODINGS[i][2]]
                   IN  /\ value \in {0, 1}
                       /\ value = 1 <=>
                              InSeq(calls[k].flags, TAG_ENCODINGS[i][1])

\* C28 witness: _encode_flags applied to a list with an unregistered tag
\* between two registered ones, and to a list build_evidence built with a
\* cross-signal flag; the first vector has exactly two features set.
C28_Witness ==
    /\ Len(calls) = 2
    /\ calls[1].op = "encode_flags"
    /\ calls[1].flags =
           <<"no_project_evidence", "unregistered_tag", "no_dsa_evidence">>
    /\ calls[1].encoded_features["has_projects"] = 1
    /\ calls[1].encoded_features["has_dsa"] = 1
    /\ Cardinality({n \in DOMAIN calls[1].encoded_features :
                        calls[1].encoded_features[n] = 1}) = 2
    /\ calls[2].op = "encode_flags"
    /\ InSeq(calls[2].flags, "execution_ready_profile")
    /\ calls[2].encoded_features["execution_ready"] = 1

\* what a logged call handed back
Handed(rec) ==
    [raised |-> rec.raised, kind |-> rec.kind, changes |-> rec.changes,
     orchestrator |-> rec.orchestrator]

\* C29: chat hands a message classified as panic or override to the
\* Orchestrator's interaction handler and returns what the handler returns;
\* when the intent classification fails chat treats the message as casual
\* and does not invoke the Orchestrator; and the interaction handler answers
\* an intent it does not know with an error value, not an exception (the
\* code calls a method the Orchestrator does not define, so chat raises for
\* panic and override).
C29_ChatRouting ==
    \A k \in 1..Len(calls) :
        /\ (calls[k].op = "chat" /\ calls[k].intent \in {"panic", "override"}) =>
               /\ calls[k].orchestrator
               /\ \E out \in TextOutcomes :
                      Handed(calls[k]) =
                          handle_interaction(calls[k].intent,
                                             calls[k].before.decision,
                                             calls[k].before.context,
                                             out, calls[k].reply)
        /\ (calls[k].op = "chat" /\ calls[k].classifier.kind # "intent") =>
               /\ calls[k].intent = "casual"
               /\ calls[k].raised = "none"
               /\ calls[k].kind = "casual"
               /\ ~calls[k].orchestrator
        /\ (/\ calls[k].op = "handle_interaction"
            /\ calls[k].intent \notin {"panic", "override"}) =>
               /\ calls[k].raised = "none"
               /\ calls[k].kind = "error"

\* the interpretation of this reply ends in the except clause
OverrideFails(reply) ==
    \/ reply.kind # "object"
    \/ FilterRaises(reply.force_include)
    \/ FilterRaises(reply.force_exclude)

\* both lists of a change request hold only fixed career paths
OnlyAllowedPaths(changes) ==
    /\ \A i \in 1..Len(changes.force_include) :
           InSeq(ALLOWED_PATHS, changes.force_include[i])
    /\ \A i \in 1..Len(changes.force_exclude) :
           InSeq(ALLOWED_PATHS, changes.force_exclude[i])

\* C30 (as amended): for every reply of the remote interpreter,
\* interpret_override returns a change request whose force_include and
\* force_exclude hold only members of the four fixed career paths; on any
\* failure it returns the neutral request: both lists empty, hours_per_week,
\* urgency and exploration_allowed null, and reason the fixed text "Failed
\* to interpret user intent.".
C30_OverrideFiltered ==
    \A k \in 1..Len(calls) :
        calls[k].op = "interpret_override" =>
            /\ calls[k].raised = "none"
            /\ OnlyAllowedPaths(calls[k].changes)
            /\ OverrideFails(calls[k].reply) =>
                   /\ calls[k].changes.force_include = <<>>
                   /\ calls[k].changes.force_exclude = <<>>
                   /\ calls[k].changes.hours_per_week = JsonNull
                   /\ calls[k].changes.urgency = JsonNull
                   /\ calls[k].changes.exploration_allowed = JsonNull
                   /\ calls[k].changes.reason =
                          JsonValue("string",
                                    <<"Failed to interpret user intent.">>,
                                    TRUE)

\* C30 as stated: on a failure every field besides the two lists is null,
\* the reason included.
C30_NeutralAllNull ==
    \A k \in 1..Len(calls) :
        calls[k].op = "interpret_override" =>
            /\ calls[k].raised = "none"
            /\ OnlyAllowedPaths(calls[k].changes)
            /\ OverrideFails(calls[k].reply) =>
                   /\ calls[k].changes.force_include = <<>>
                   /\ calls[k].changes.force_exclude = <<>>
                   /\ calls[k].changes.hours_per_week = JsonNull
                   /\ calls[k].changes.urgency = JsonNull
                   /\ calls[k].changes.exploration_allowed = JsonNull
                   /\ calls[k].changes.reason = JsonNull

\* C30 witness: the interpreter named an invented path, a fixed path and a
\* misspelt path to include and gave a dict to exclude; the request keeps
\* the fixed path alone in both lists.
C30_Witness ==
    /\ Len(calls) = 1
    /\ calls[1].op = "interpret_override"
    /\ calls[1].reply.kind = "object"
    /\ calls[1].reply.force_include.items =
           <<"Web Development", "Backend Engineering", "frontend engineering">>
    /\ calls[1].reply.force_exclude.type = "dict"
    /\ calls[1].changes.force_include = <<"Backend Engineering">>
    /\ calls[1].changes.force_exclude = <<"Backend Engineering">>

====
